---- MODULE Spec2Model ----
(***************************************************************************)
(* The PJSIP request distributor of res_pjsip (pjsip_distributor.c): the   *)
(* distributor rx hook that runs on transport threads, the serializers it  *)
(* feeds, the distribute task and the two request modules (Endpoint        *)
(* Identifier, Request Authenticator) that run inside it, and the dialog   *)
(* and transmit-buffer annotations the hook reads.                         *)
(***************************************************************************)
EXTENDS Integers, Sequences, FiniteSets, TLC

(***************************************************************************)
(* Bounds of the model.                                                    *)
(***************************************************************************)
\* messages that may be between their arrival at the hook and the return of
\* their distribute task at the same time (one more where ordering is checked)
MaxInFlight == 1

\* references an endpoint may hold before no further one is taken
MaxRefs == 3

\* transport threads that may run the hook concurrently
NumThreads == 2

(***************************************************************************)
(* Program constants and null values.                                      *)
(***************************************************************************)
DISTRIBUTOR_POOL_SIZE == 31

NULL == "NULL"

Msgs == 1..(MaxInFlight + 1)
Threads == 1..NumThreads

(***************************************************************************)
(* Serializers are identified by their names.  The pool serializers are    *)
(* named from the base "pjsip/distributor"; "wrk-7" is a serializer that   *)
(* sends outbound requests, "dlg-1" the serializer of a session.           *)
(***************************************************************************)
PoolName(idx) == "pjsip/distributor-" \o ToString(idx)

PoolIdx == 0..(DISTRIBUTOR_POOL_SIZE - 1)

WRK == "wrk-7"

DLGSER == "dlg-1"

\* a taskprocessor whose name is the empty string
NONAME == "tps-without-name"

Serializers == {PoolName(i) : i \in PoolIdx} \cup {WRK, DLGSER}

(***************************************************************************)
(* Endpoints: one configured endpoint and the artificial one.              *)
(***************************************************************************)
E1 == "endpoint-1"

ART == "artificial"

Endpoints == {E1, ART}

(***************************************************************************)
(* 32-bit two's complement arithmetic on pairs <<hi, lo>> of 16-bit        *)
(* halves: an int of the program is hi * 65536 + lo read as signed.        *)
(***************************************************************************)
Half == 256 * 256

RECURSIVE XorN(_, _)
XorN(a, b) ==
    IF a = 0 THEN b
    ELSE IF b = 0 THEN a
    ELSE (((a % 2) + (b % 2)) % 2) + 2 * XorN(a \div 2, b \div 2)

\* hash * 33, wrapping at 32 bits
Mul33(h) ==
    LET lo == h[2] * 33
        hi == h[1] * 33 + (lo \div Half)
    IN  <<hi % Half, lo % Half>>

\* the int a char converts to: sign-extended when char is signed
CharToInt(c, signedChar) ==
    IF signedChar /\ c >= 128 THEN <<Half - 1, Half - 256 + c>> ELSE <<0, c>>

Xor32(h, g) == <<XorN(h[1], g[1]), XorN(h[2], g[2])>>

IsNeg32(h) == h[1] >= 32768

\* -h, wrapping at 32 bits (so that the most negative int maps to itself)
Neg32(h) ==
    LET lo == (Half - h[2]) % Half
        borrow == IF h[2] = 0 THEN 0 ELSE 1
        hi == (2 * Half - h[1] - borrow) % Half
    IN  <<hi, lo>>

\* abs() of <stdlib.h>
Abs32(h) == IF IsNeg32(h) THEN Neg32(h) ELSE h

\* the most negative and the most positive int
INT_MIN == <<32768, 0>>

INT_MAX == <<32767, Half - 1>>

\* what abs() returns: abs(INT_MIN) is undefined, and comes out as INT_MIN
\* where the negation wraps and as INT_MAX where it saturates
abs_result(h, wraps) ==
    IF h # INT_MIN THEN Abs32(h) ELSE IF wraps THEN INT_MIN ELSE INT_MAX

\* the widths size_t has on the builds
SizeTBits == {32, 64}

\* a modulo that keeps the int signed, truncating toward zero
Mod32_truncating(h, n, bits) ==
    LET mag == IF IsNeg32(h) THEN Neg32(h) ELSE h
        r == ((mag[1] % n) * (Half % n) + (mag[2] % n)) % n
    IN  IF IsNeg32(h) THEN 0 - r ELSE r

\* h % n where n is a size_t of the given width, for 0 < n < 32768: the int
\* is converted to size_t first, a negative one to 2^bits + h
Mod32(h, n, bits) ==
    LET p32 == ((Half % n) * (Half % n)) % n
        p64 == (p32 * p32) % n
        pattern == ((h[1] % n) * (Half % n) + (h[2] % n)) % n
        extension == IF bits = 64 /\ IsNeg32(h) THEN (p64 + n - p32) % n ELSE 0
    IN  (pattern + extension) % n

RECURSIVE pjstr_hash_add(_, _, _)
pjstr_hash_add(str, hash, signedChar) ==
    IF str = <<>> THEN hash
    ELSE pjstr_hash_add(Tail(str), Xor32(Mul33(hash), CharToInt(Head(str), signedChar)),
                        signedChar)

\* 5381 as a 32-bit int
HashSeed == <<0, 5381>>

pjstr_hash(str, signedChar) == pjstr_hash_add(str, HashSeed, signedChar)

\* whether char is a signed type on the build (it is on x86)
CharIsSigned == TRUE

(***************************************************************************)
(* What the SIP library knows: one established dialog, one client          *)
(* transaction of an INVITE this side sent, and one server transaction of  *)
(* an INVITE that belongs to the dialog.  Strings are byte sequences.      *)
(***************************************************************************)
CID == <<97, 64, 120>>

TAG_F1 == <<102, 49>>

TAG_L == <<108, 116>>

TAG_R == <<114, 116>>

NOTAG == <<>>

Dialogs == {"d1"}

ua_dialogs == [d \in Dialogs |-> [cid |-> CID, local |-> TAG_L, remote |-> TAG_R]]

Tdatas == {"q1"}

\* the transaction layer's table: key (role, method, branch) and, for a
\* server transaction, the dialog it belongs to
tsx_table ==
    { [name |-> "x1", role |-> "UAC", method |-> "INVITE", branch |-> "b1", dlg |-> NULL],
      [name |-> "x2", role |-> "UAS", method |-> "INVITE", branch |-> "b2", dlg |-> "d1"],
      [name |-> "x3", role |-> "UAS", method |-> "INVITE", branch |-> "b3", dlg |-> NULL] }

UacTsx == {"x1"}

(***************************************************************************)
(* The inbound messages the transport hands to the hook.                   *)
(***************************************************************************)
Msg(type, method, from_tag, to_tag, branch) ==
    [type |-> type, method |-> method, cid |-> CID,
     from_tag |-> from_tag, to_tag |-> to_tag, branch |-> branch]

MsgKinds ==
    { Msg("REQ", "INVITE", TAG_F1, NOTAG, "b0"),   \* out-of-dialog INVITE
      Msg("REQ", "INVITE", TAG_R, TAG_L, "b0"),    \* INVITE on the dialog
      Msg("REQ", "ACK", TAG_R, TAG_L, "b0"),       \* ACK on the dialog
      Msg("REQ", "ACK", TAG_F1, NOTAG, "b0"),      \* ACK outside any dialog
      Msg("REQ", "BYE", TAG_R, TAG_L, "b0"),       \* BYE on the dialog
      Msg("REQ", "BYE", TAG_F1, TAG_L, "b0"),      \* BYE matching no dialog
      Msg("REQ", "CANCEL", TAG_R, NOTAG, "b2"),    \* CANCEL of the dialog's INVITE
      Msg("REQ", "CANCEL", TAG_F1, NOTAG, "b3"),   \* CANCEL of an INVITE without dialog
      Msg("REQ", "CANCEL", TAG_F1, NOTAG, "b0"),   \* CANCEL matching nothing
      Msg("RESP", "INVITE", TAG_L, TAG_R, "b1"),   \* response on the dialog
      Msg("RESP", "INVITE", TAG_F1, NOTAG, "b1"),  \* response to our request, no dialog
      Msg("RESP", "INVITE", TAG_F1, TAG_R, "b0") } \* response matching nothing

\* the messages that belong to the dialog
DialogKinds ==
    { Msg("REQ", "INVITE", TAG_R, TAG_L, "b0"),
      Msg("REQ", "ACK", TAG_R, TAG_L, "b0"),
      Msg("REQ", "BYE", TAG_R, TAG_L, "b0"),
      Msg("REQ", "CANCEL", TAG_R, NOTAG, "b2"),
      Msg("RESP", "INVITE", TAG_L, TAG_R, "b1") }

\* the messages of the dialog and a request outside it
OrderKinds == DialogKinds \cup {Msg("REQ", "INVITE", TAG_F1, NOTAG, "b0")}

NoKind == Msg("none", "none", NOTAG, NOTAG, "b0")

VARIABLES
    fully_booted,     \* AST_OPT_FLAG_FULLY_BOOTED
    alert,            \* ast_taskprocessor_alert_get()
    distributor_pool, \* the pool of serializers, by index
    tps_alive,        \* the serializers that exist, by name
    dlg_mod_data,     \* per dialog: the distributor_dialog_data, if allocated
    tdata_mod_data,   \* per transmit buffer: the recorded serializer name
    tsx_last_tx,      \* per client transaction: its last transmitted request
    refcnt,           \* per endpoint: its ao2 reference count
    pc,               \* per transport thread: where it is in distributor()
    hk,               \* per transport thread: the locals of distributor()
    queue,            \* per serializer: the queued distribute tasks
    w,                \* per serializer: what its worker is running
    h,                \* per message in flight: the message, its clone and
                      \* what has been done with it
    obs,              \* the messages in flight, in the order the hook saw them
    crashed,          \* the process died on an invalid pointer or assertion
    hs,               \* ast_sip_get_distributor_serializer followed step by step
    calls,            \* per dialog: what the setters were last called with
    rs,               \* record_serializer followed step by step
    lc,               \* ast_sip_initialize_distributor and
                      \* ast_sip_destroy_distributor followed step by step
    held,             \* per caller: the endpoint it holds a reference to
    wv                \* the WAV mu-law file, its writer and its reader

envVars == <<fully_booted, alert, distributor_pool, tps_alive>>

annVars == <<dlg_mod_data, tdata_mod_data, tsx_last_tx>>

hookVars == <<pc, hk>>

taskVars == <<queue, w>>

mainVars == <<envVars, annVars, hookVars, taskVars, refcnt, h, obs, crashed>>

\* what the specifications of single functions follow
sideVars == <<hs, calls, rs, lc, held, wv>>

vars == <<mainVars, sideVars>>

NoDist == [alloc |-> FALSE, allocs |-> 0, serializer |-> NULL, endpoint |-> NULL]

NoLocals == [m |-> 0, dist |-> NULL, serializer |-> NULL, dlg_locked |-> FALSE]

Idle == [stage |-> "idle", m |-> 0, handled |-> FALSE]

\* the record of a message: alerted, req_name and req_alive are the alert, the
\* name recorded with the request of a response's client transaction and
\* whether a serializer of that name existed, all when the message arrived;
\* phase says where it is (free: no message; hook:
\* between the lookup and the push; queued; running; final: nothing more will
\* be done with it), cstate, ep and frees are its clone
H0 ==
    [kind |-> NoKind, phase |-> "free", booted |-> FALSE, alert |-> "unread",
     path |-> "none", ret |-> "none", after |-> {}, dlg |-> NULL, dlg_ser |-> NULL,
     alerted |-> FALSE, req_name |-> NULL, req_alive |-> FALSE,
     tsx_name |-> NULL, tsx_ser |-> NULL, ser |-> NULL,
     dlg_lookups |-> 0, tsx_lookups |-> 0, dlg_locks |-> 0, dlg_unlocks |-> 0,
     tsx_locks |-> 0, tsx_unlocks |-> 0, ser_acq |-> 0, ser_rel |-> 0, ser_from |-> "none",
     clones |-> 0, enq |-> 0, n481 |-> 0, transport_runs |-> 0,
     cstate |-> "none", ep |-> NULL, frees |-> 0,
     runs |-> 0, ran_on |-> NULL, ident |-> "none", id_result |-> "uncalled",
     lookup_ret |-> "none", ep_at_auth |-> "none",
     requires |-> "none", verdict |-> "none", auth_ret |-> "none",
     tdata_built |-> 0, tdata_sent |-> 0, tdata_released |-> 0,
     n401 |-> 0, n500 |-> 0, n501 |-> 0, app |-> FALSE, handled |-> "none",
     ep_taken |-> 0, ep_released |-> 0, auth_refs |-> 0, auth_rels |-> 0,
     assert_failed |-> FALSE, done |-> FALSE]

\* no call of ast_sip_get_distributor_serializer is followed
\* a setter that has not been called yet
UNSET == "unset"

NoCalls == [serializer |-> UNSET, endpoint |-> UNSET]

NoRecord ==
    [stage |-> "none", before |-> NULL, stored |-> NULL, current |-> NULL,
     serializer |-> NULL, name |-> NULL, allocs |-> 0, ret |-> "none"]

\* the three modules, in the order they are registered
Modules == <<"distributor_mod", "endpoint_mod", "auth_mod">>

NoLife ==
    [stage |-> "none", idx |-> 0, pool |-> [i \in PoolIdx |-> NULL],
     tps_refs |-> [i \in PoolIdx |-> 0], artificial_endpoint |-> NULL, ep_refs |-> 0,
     artificial_auth |-> NULL, auth_refs |-> 0, registered |-> {}, failed |-> "none",
     ret |-> "none"]

\* who calls the getters, and who held the endpoint before it was set on a
\* dialog
GetterCallers == {"c1", "c2"}

OWNER == "owner"

Callers == GetterCallers \cup {OWNER}

NoHeld == [c \in Callers |-> IF c = OWNER THEN E1 ELSE NULL]

\* the format module before any file is written or opened: no file, no
\* position, no result
NoWav ==
    [stage |-> "idle", endian |-> "little", origin |-> "none", f |-> <<>>,
     pos |-> 0, wstep |-> 1, write_ret |-> 0, rewrite_ret |-> 0,
     size |-> 0, field |-> 1, data |-> 0, check_ret |-> 0, open_ret |-> 0]

\* the state a successful ast_sip_initialize_distributor leaves
Initialized ==
    [stage |-> "initialized", idx |-> DISTRIBUTOR_POOL_SIZE,
     pool |-> [i \in PoolIdx |-> PoolName(i)], tps_refs |-> [i \in PoolIdx |-> 1],
     artificial_endpoint |-> ART, ep_refs |-> 1, artificial_auth |-> "artificial",
     auth_refs |-> 1, registered |-> {Modules[n] : n \in 1..Len(Modules)},
     failed |-> "none", ret |-> "0"]

\* the library calls a module's hooks only while the module is registered
Registered(module) == module \in lc.registered

NoHash ==
    [stage |-> "none", type |-> "none", cid |-> <<>>, from_tag |-> <<>>, to_tag |-> <<>>,
     signedChar |-> FALSE, bits |-> 0, raw |-> <<0, 0>>, hash |-> <<0, 0>>, idx |-> 0,
     serializer |-> NULL]

MainInit ==
    /\ fully_booted = FALSE
    /\ alert = FALSE
    /\ distributor_pool = [i \in PoolIdx |-> PoolName(i)]
    /\ tps_alive = Serializers
    /\ dlg_mod_data = [d \in Dialogs |-> NoDist]
    /\ tdata_mod_data = [q \in Tdatas |-> NULL]
    /\ tsx_last_tx = [x \in UacTsx |-> NULL]
    /\ refcnt = [e \in Endpoints |-> 1]
    /\ pc = [t \in Threads |-> "idle"]
    /\ hk = [t \in Threads |-> NoLocals]
    /\ queue = [s \in Serializers |-> <<>>]
    /\ w = [s \in Serializers |-> Idle]
    /\ h = [m \in Msgs |-> H0]
    /\ obs = <<>>
    /\ crashed = FALSE

Init ==
    /\ MainInit
    /\ hs = NoHash
    /\ calls = [d \in Dialogs |-> NoCalls]
    /\ rs = NoRecord
    /\ lc = Initialized
    /\ held = NoHeld
    /\ wv = NoWav

InFlight == {m \in Msgs : h[m].phase # "free"}

\* the record of a message that is through is dropped before anything else
\* happens
Settled == ~crashed /\ \A m \in Msgs : h[m].phase # "final"

(***************************************************************************)
(* The collaborators the hook calls.                                       *)
(***************************************************************************)
\* pjsip_ua_find_dialog(call-id, local tag, remote tag, lock)
pjsip_ua_find_dialog(cid, local_tag, remote_tag) ==
    LET found == {d \in Dialogs : /\ ua_dialogs[d].cid = cid
                                  /\ ua_dialogs[d].local = local_tag
                                  /\ ua_dialogs[d].remote = remote_tag}
    IN  IF found = {} THEN NULL ELSE CHOOSE d \in found : TRUE

\* pjsip_tsx_create_key + pjsip_tsx_layer_find_tsx: the transaction or NULL
pjsip_tsx_layer_find_tsx(role, method, k) ==
    LET found == {x \in tsx_table : /\ x.role = role
                                    /\ x.method = method
                                    /\ x.branch = k.branch}
    IN  IF found = {} THEN NULL ELSE (CHOOSE x \in found : TRUE).name

\* pjsip_tsx_get_dlg
pjsip_tsx_get_dlg(tsx) == (CHOOSE x \in tsx_table : x.name = tsx).dlg

\* ast_taskprocessor_get(name, TPS_REF_IF_EXISTS)
ast_taskprocessor_get(name) == IF name \in tps_alive THEN name ELSE NULL

ast_strlen_zero(str) == str = NULL \/ str = ""

(***************************************************************************)
(* find_dialog: the dialog of a message, and which lookups it took.        *)
(***************************************************************************)
find_dialog(k) ==
    LET local_tag == IF k.type = "REQ" THEN k.to_tag ELSE k.from_tag
        remote_tag == IF k.type = "REQ" THEN k.from_tag ELSE k.to_tag
        tsx == pjsip_tsx_layer_find_tsx("UAS", "INVITE", k)
    IN  IF k.type = "RESP" \/ k.method # "CANCEL" \/ k.to_tag # NOTAG
        THEN [dlg |-> pjsip_ua_find_dialog(k.cid, local_tag, remote_tag),
              dlg_lookups |-> 1, tsx_lookups |-> 0]
        ELSE IF tsx = NULL
        THEN [dlg |-> NULL, dlg_lookups |-> 0, tsx_lookups |-> 1]
        ELSE [dlg |-> pjsip_tsx_get_dlg(tsx), dlg_lookups |-> 0, tsx_lookups |-> 1]

\* the locks find_dialog takes and releases: pjsip_ua_find_dialog returns the
\* dialog locked (lines 218-219, lock = PJ_TRUE); pjsip_tsx_layer_find_tsx
\* returns the transaction locked (229), it is unlocked at 237-241 and the
\* dialog it gave is locked at 247
find_dialog_locks(k) ==
    LET fd == find_dialog(k)
        dlg_locks == IF fd.dlg = NULL THEN 0 ELSE 1
        tsx == pjsip_tsx_layer_find_tsx("UAS", "INVITE", k)
    IN  IF fd.tsx_lookups = 0 \/ tsx = NULL
        THEN [dlg_locks |-> dlg_locks, tsx_locks |-> 0, tsx_unlocks |-> 0]
        ELSE [dlg_locks |-> dlg_locks, tsx_locks |-> 1, tsx_unlocks |-> 1]

\* line 363: the hook unlocks the dialog find_dialog gave it
distributor_dlg_unlocks(dlg) == IF dlg = NULL THEN 0 ELSE 1

\* an unlock that is skipped when the transaction has no last request
find_request_serializer_unlocks_with_last_tx(tsx, last_tx) ==
    IF tsx # NULL /\ last_tx # NULL THEN 1 ELSE 0

\* lines 100-106 and 121-125: no transaction, nothing locked; otherwise the
\* transaction is unlocked before the return
find_request_serializer_unlocks(tsx, last_tx) == IF tsx = NULL THEN 0 ELSE 1

\* the locks find_request_serializer takes and releases
find_request_serializer_locks(k) ==
    LET tsx == pjsip_tsx_layer_find_tsx("UAC", k.method, k)
    IN  [tsx_locks |-> IF tsx = NULL THEN 0 ELSE 1,
         tsx_unlocks |-> find_request_serializer_unlocks(
                             tsx, IF tsx = NULL THEN NULL ELSE tsx_last_tx[tsx])]

(***************************************************************************)
(* find_request_serializer: the serializer whose name the request of the   *)
(* response's client transaction was recorded with.                        *)
(***************************************************************************)
\* the name on the transaction's last transmitted request, NULL without one
request_serializer_name(k) ==
    LET tsx == pjsip_tsx_layer_find_tsx("UAC", k.method, k)
    IN  IF tsx = NULL THEN NULL
        ELSE IF tsx_last_tx[tsx] = NULL THEN NULL
        ELSE tdata_mod_data[tsx_last_tx[tsx]]

\* a find_request_serializer that ignores what was recorded with the request
find_request_serializer_finds_none(k) == NULL

find_request_serializer(k) ==
    LET serializer_name == request_serializer_name(k)
    IN  IF ast_strlen_zero(serializer_name) THEN NULL
        ELSE ast_taskprocessor_get(serializer_name)

(***************************************************************************)
(* ast_sip_get_distributor_serializer: the pool entry for a message.       *)
(***************************************************************************)
\* a choice of tag that forgets the direction
hash_remote_tag_from_only(msg) == msg.from_tag

\* lines 309-313: the remote tag is the from-tag of a request and the to-tag
\* of a response
hash_remote_tag(msg) == IF msg.type = "REQ" THEN msg.from_tag ELSE msg.to_tag

distributor_hash(k) ==
    LET hash1 == pjstr_hash(k.cid, CharIsSigned)
        hash2 == pjstr_hash_add(hash_remote_tag(k), hash1, CharIsSigned)
    \* the hash of no message of MsgKinds is the most negative int, and the
    \* index of a hash that is not negative is the same for either size_t
    IN  Mod32(Abs32(hash2), DISTRIBUTOR_POOL_SIZE, 64)

ast_sip_get_distributor_serializer(k) ==
    LET idx == distributor_hash(k)
    IN  IF idx \in PoolIdx THEN distributor_pool[idx] ELSE NULL

(***************************************************************************)
(* The decisions of distributor().                                         *)
(***************************************************************************)
\* a boot gate that lets everything through
distributor_ignores_nothing(booted) == FALSE

\* line 343: ignore everything until fully booted
distributor_ignores(booted) == ~booted

\* lines 355-357: the serializer of the dialog's annotation
dialog_serializer(dlg) ==
    IF dlg = NULL THEN NULL
    ELSE IF ~dlg_mod_data[dlg].alloc THEN NULL
    ELSE dlg_mod_data[dlg].serializer

\* a method test that forgets BYE
is_bye_or_cancel_cancel_only(k) == k.method = "CANCEL"

\* lines 387-388: a BYE or CANCEL request
is_bye_or_cancel(k) == k.method = "CANCEL" \/ k.method = "BYE"

\* an overload check that is missing on the response branch
overload_shed_requests_only(k, alerted) == alerted /\ k.type = "REQ"

\* lines 373, 394: shed the message when the taskprocessors are backed up
overload_shed(k, alerted) == alerted

\* a hook that returns PJ_FALSE after a successful push
distributor_retval_declines_enqueued(path) ==
    IF path = "enq_ok" THEN "PJ_FALSE" ELSE "PJ_TRUE"

\* a hook that returns PJ_FALSE after the 481
distributor_retval_declines_481(path) == IF path = "481" THEN "PJ_FALSE" ELSE "PJ_TRUE"

\* what distributor() returns on each of its paths
distributor_retval(path) == "PJ_TRUE"

\* a resolution that took no transaction lookup and did not read the alert
NoTsxLookup == [tsx_lookups |-> 0, tsx_name |-> NULL, tsx_ser |-> NULL, alert |-> "unread"]

\* lines 366-411 for a message whose dialog gave no serializer: a response
\* goes to the serializer recorded with its request, a BYE or CANCEL is
\* answered 481, anything else is shed under overload or hashed to the pool
resolve_unaffiliated(k) ==
    LET tsx_ser == find_request_serializer(k)
        viatsx == [tsx_lookups |-> 1, tsx_name |-> request_serializer_name(k),
                   tsx_ser |-> tsx_ser, alert |-> "unread"]
        seen == IF alert THEN "set" ELSE "clear"
    IN  IF k.type = "RESP"
        THEN IF tsx_ser # NULL
             THEN viatsx @@ [path |-> "dispatch", serializer |-> tsx_ser]
             ELSE IF overload_shed(k, alert)
             THEN [viatsx EXCEPT !.alert = seen] @@ [path |-> "overload", serializer |-> NULL]
             ELSE [viatsx EXCEPT !.alert = seen]
                  @@ [path |-> "dispatch", serializer |-> ast_sip_get_distributor_serializer(k)]
        ELSE IF is_bye_or_cancel(k)
        THEN NoTsxLookup @@ [path |-> "481", serializer |-> NULL]
        ELSE IF overload_shed(k, alert)
        THEN [NoTsxLookup EXCEPT !.alert = seen] @@ [path |-> "overload", serializer |-> NULL]
        ELSE [NoTsxLookup EXCEPT !.alert = seen]
             @@ [path |-> "dispatch", serializer |-> ast_sip_get_distributor_serializer(k)]

\* a resolution that ignores the dialog's serializer for an ACK
distributor_resolve_acks_unaffiliated(k, dlg_ser) ==
    IF dlg_ser # NULL /\ k.method # "ACK"
    THEN NoTsxLookup @@ [path |-> "dispatch", serializer |-> dlg_ser]
    ELSE resolve_unaffiliated(k)

\* lines 366-411: what to do with a message once the dialog has been looked
\* up: dispatch it to a serializer, drop it, or answer 481
distributor_resolve(k, dlg_ser) ==
    IF dlg_ser # NULL
    THEN NoTsxLookup @@ [path |-> "dispatch", serializer |-> dlg_ser]
    ELSE resolve_unaffiliated(k)

\* where the hook's reference to the serializer comes from: ao2_bump of the
\* dialog's (line 357), ast_taskprocessor_get by name (line 114), ao2_bump of
\* the pool entry (line 320)
serializer_from(dlg_ser, r) ==
    IF dlg_ser # NULL THEN "dialog"
    ELSE IF r.tsx_ser # NULL THEN "name"
    ELSE IF r.serializer # NULL THEN "pool"
    ELSE "none"

\* a hook that keeps its reference when the push fails
distributor_unreferences_after_success(serializer, pushed) ==
    IF serializer # NULL /\ pushed THEN 1 ELSE 0

\* line 424: ast_taskprocessor_unreference(serializer), whatever the push
\* returned; nothing for a null serializer
distributor_unreferences(serializer, pushed) == IF serializer = NULL THEN 0 ELSE 1

\* the messages in flight whose hook has returned
HookReturned == {m \in Msgs : h[m].phase \in {"queued", "running"}}

\* the transport delivers its next message to the idle thread of lowest number
NextThread(t) == pc[t] = "idle" /\ \A u \in Threads : u < t => pc[u] # "idle"

FreeSlot(m) == h[m].phase = "free" /\ \A n \in Msgs : n < m => h[n].phase # "free"

(***************************************************************************)
(* distributor(), lines 336-411: the boot gate, the dialog lookup under    *)
(* the dialog lock, and the choice of serializer.  limit is how many       *)
(* messages may be in flight.                                              *)
(***************************************************************************)
distributor_lookup(t, k, limit) ==
    \E m \in Msgs :
    LET fd == find_dialog(k)
        dist == IF fd.dlg # NULL /\ dlg_mod_data[fd.dlg].alloc THEN fd.dlg ELSE NULL
        dlg_ser == dialog_serializer(fd.dlg)
        r == distributor_resolve(k, dlg_ser)
        req_name == IF k.type = "RESP" THEN request_serializer_name(k) ELSE NULL
        fl == find_dialog_locks(k)
        rl == IF r.tsx_lookups = 1 THEN find_request_serializer_locks(k)
              ELSE [tsx_locks |-> 0, tsx_unlocks |-> 0]
        arrived == [H0 EXCEPT !.kind = k, !.booted = fully_booted, !.after = HookReturned,
                              !.alerted = alert, !.req_name = req_name,
                              !.req_alive = req_name \in tps_alive]
        looked == [arrived EXCEPT !.dlg = fd.dlg, !.dlg_ser = dlg_ser,
                                  !.dlg_lookups = fd.dlg_lookups,
                                  !.dlg_locks = fl.dlg_locks,
                                  !.dlg_unlocks = distributor_dlg_unlocks(fd.dlg),
                                  !.tsx_locks = fl.tsx_locks + rl.tsx_locks,
                                  !.tsx_unlocks = fl.tsx_unlocks + rl.tsx_unlocks,
                                  !.tsx_lookups = fd.tsx_lookups + r.tsx_lookups,
                                  !.tsx_name = r.tsx_name,
                                  !.tsx_ser = r.tsx_ser,
                                  !.alert = r.alert, !.ser = r.serializer,
                                  !.ser_acq = IF r.serializer # NULL THEN 1 ELSE 0,
                                  !.ser_from = serializer_from(dlg_ser, r)]
        ret(path, rec) ==
            [rec EXCEPT !.phase = "final", !.path = path, !.ret = distributor_retval(path),
                        !.transport_runs = IF distributor_retval(path) = "PJ_TRUE" THEN 0 ELSE 1]
    IN  /\ Settled
        /\ Registered("distributor_mod")
        /\ Cardinality(InFlight) < limit
        /\ NextThread(t)
        /\ FreeSlot(m)
        /\ obs' = Append(obs, m)
        /\ IF distributor_ignores(fully_booted)
           THEN /\ h' = [h EXCEPT ![m] = ret("boot", arrived)]
                /\ UNCHANGED <<pc, hk>>
           ELSE IF r.path = "overload"
           THEN /\ h' = [h EXCEPT ![m] = ret("overload", looked)]
                /\ UNCHANGED <<pc, hk>>
           ELSE IF r.path = "481"
           THEN /\ h' = [h EXCEPT ![m] = ret("481", [looked EXCEPT !.n481 = 1])]
                /\ UNCHANGED <<pc, hk>>
           ELSE /\ h' = [h EXCEPT ![m] = [looked EXCEPT !.phase = "hook", !.path = "dispatch"]]
                /\ pc' = [pc EXCEPT ![t] = "dispatch"]
                \* the dialog lock find_dialog took is released at line 363
                /\ hk' = [hk EXCEPT ![t] = [m |-> m, dist |-> dist,
                                            serializer |-> r.serializer,
                                            dlg_locked |-> FALSE]]
        /\ UNCHANGED <<envVars, annVars, taskVars, refcnt, crashed>>
        /\ UNCHANGED sideVars

(***************************************************************************)
(* Reference counting (ao2_bump, ao2_cleanup, ao2_ref).                    *)
(***************************************************************************)
Ref(rc, e, delta) == IF e = NULL THEN rc ELSE [rc EXCEPT ![e] = @ + delta]

\* lines 415-417: the endpoint copied onto the clone, read from the dialog's
\* annotation after the dialog lock has been released
dialog_endpoint(dist) == IF dist = NULL THEN NULL ELSE dlg_mod_data[dist].endpoint

\* lines 419-422: after a failed push the hook releases the clone's endpoint
\* reference and frees the clone
cleanup_after_push(push_failed) == push_failed

(***************************************************************************)
(* distributor(), lines 413-426: clone the receive buffer, copy the        *)
(* dialog's endpoint onto the clone, push the distribute task and release  *)
(* the serializer.  pjsip_rx_data_clone's status is not looked at: when it *)
(* fails, clone is an indeterminate pointer, and each use of it either     *)
(* kills the process or goes unnoticed.                                    *)
(***************************************************************************)
distributor_dispatch(t, clone_ok, push_ok, survives) ==
    LET m == hk[t].m
        serializer == hk[t].serializer
        ep == dialog_endpoint(hk[t].dist)
        bumped == IF ep = NULL THEN 0 ELSE 1
        cleaned == cleanup_after_push(~push_ok)
        \* the hook itself dereferences clone at line 416 and at lines 420-421
        derefs == hk[t].dist # NULL \/ cleaned
        cloned == [h[m] EXCEPT !.clones = IF clone_ok THEN 1 ELSE 0,
                               !.cstate = IF clone_ok THEN "live" ELSE "invalid",
                               !.ep = IF clone_ok THEN ep ELSE NULL,
                               !.ep_taken = bumped]
        ret(path, rec) ==
            [rec EXCEPT !.path = path, !.ret = distributor_retval(path),
                        !.ser_rel = distributor_unreferences(serializer, push_ok),
                        !.transport_runs = IF distributor_retval(path) = "PJ_TRUE" THEN 0 ELSE 1]
    IN  /\ Settled
        /\ pc[t] = "dispatch"
        /\ ep # NULL => refcnt[ep] < MaxRefs
        /\ IF ~clone_ok /\ derefs /\ ~survives
           THEN /\ crashed' = TRUE
                /\ h' = [h EXCEPT ![m].path = "crash"]
                /\ UNCHANGED <<pc, hk, queue, refcnt>>
           ELSE /\ crashed' = crashed
                /\ pc' = [pc EXCEPT ![t] = "idle"]
                /\ hk' = [hk EXCEPT ![t] = NoLocals]
                /\ IF push_ok
                   THEN /\ queue' = [queue EXCEPT ![serializer] = Append(@, m)]
                        /\ refcnt' = Ref(refcnt, ep, 1)
                        /\ h' = [h EXCEPT ![m] =
                                   ret("enq_ok", [cloned EXCEPT !.phase = "queued", !.enq = 1])]
                   ELSE /\ UNCHANGED queue
                        /\ refcnt' = IF clone_ok /\ cleaned THEN refcnt ELSE Ref(refcnt, ep, 1)
                        /\ h' = [h EXCEPT ![m] =
                                   ret("enq_fail",
                                       [cloned EXCEPT
                                           !.phase = "final",
                                           !.cstate = IF clone_ok /\ cleaned
                                                      THEN "freed" ELSE @,
                                           !.frees = IF clone_ok /\ cleaned THEN 1 ELSE 0,
                                           !.ep_released =
                                               IF clone_ok /\ cleaned THEN bumped ELSE 0])]
        /\ UNCHANGED <<envVars, annVars, w, obs>>
        /\ UNCHANGED sideVars

(***************************************************************************)
(* The services the request modules call.  The credential verifier and the *)
(* identifier are collaborators: an endpoint requires authentication when  *)
(* its inbound-auth list is not empty, which the artificial endpoint's     *)
(* always is, and the artificial auth never verifies.                      *)
(***************************************************************************)
Verdicts == {"CHALLENGE", "SUCCESS", "FAILED", "ERROR"}

\* ast_sip_requires_authentication(endpoint, rdata); configured says whether
\* a configured endpoint has inbound auths
ast_sip_requires_authentication(endpoint, configured) ==
    IF endpoint = ART THEN TRUE ELSE configured

\* the verdicts ast_sip_check_authentication(endpoint, rdata, tdata) can give
ast_sip_check_authentication(endpoint) ==
    IF endpoint = ART THEN Verdicts \ {"SUCCESS"} ELSE Verdicts

\* an endpoint_lookup that attaches nothing when identification fails
endpoint_lookup_result_no_artificial(pre, identified, is_ack) ==
    IF pre # NULL
    THEN [endpoint |-> pre, ident |-> "skipped", taken |-> NULL, ret |-> "PJ_FALSE"]
    ELSE IF identified # NULL
    THEN [endpoint |-> identified, ident |-> "ok", taken |-> identified, ret |-> "PJ_FALSE"]
    ELSE [endpoint |-> NULL, ident |-> "failed", taken |-> NULL, ret |-> "PJ_FALSE"]

\* an endpoint_lookup that attaches the artificial endpoint without a
\* reference of its own
endpoint_lookup_result_borrows_artificial(pre, identified, is_ack) ==
    IF pre # NULL
    THEN [endpoint |-> pre, ident |-> "skipped", taken |-> NULL, ret |-> "PJ_FALSE"]
    ELSE IF identified # NULL
    THEN [endpoint |-> identified, ident |-> "ok", taken |-> identified, ret |-> "PJ_FALSE"]
    ELSE IF ~is_ack
    THEN [endpoint |-> ART, ident |-> "failed", taken |-> NULL, ret |-> "PJ_FALSE"]
    ELSE [endpoint |-> NULL, ident |-> "failed", taken |-> NULL, ret |-> "PJ_FALSE"]

\* an endpoint_lookup that identifies even when an endpoint is attached
endpoint_lookup_result_overwrites(pre, identified, is_ack) ==
    IF identified # NULL
    THEN [endpoint |-> identified, ident |-> "ok", taken |-> identified, ret |-> "PJ_FALSE"]
    ELSE IF ~is_ack
    THEN [endpoint |-> ART, ident |-> "failed", taken |-> ART, ret |-> "PJ_FALSE"]
    ELSE [endpoint |-> NULL, ident |-> "failed", taken |-> NULL, ret |-> "PJ_FALSE"]

(***************************************************************************)
(* endpoint_lookup: what ends up in the receive buffer's endpoint slot.    *)
(* pre is the endpoint already attached, identified what the identifier    *)
(* service would return.                                                   *)
(***************************************************************************)
endpoint_lookup_result(pre, identified, is_ack) ==
    IF pre # NULL
    THEN [endpoint |-> pre, ident |-> "skipped", taken |-> NULL, ret |-> "PJ_FALSE"]
    ELSE IF identified # NULL
    THEN [endpoint |-> identified, ident |-> "ok", taken |-> identified, ret |-> "PJ_FALSE"]
    ELSE IF ~is_ack
    THEN [endpoint |-> ART, ident |-> "failed", taken |-> ART, ret |-> "PJ_FALSE"]
    ELSE [endpoint |-> NULL, ident |-> "failed", taken |-> NULL, ret |-> "PJ_FALSE"]

\* an authenticate that returns PJ_TRUE after a successful verification
authenticate_outcome_success_consumes(is_ack, requires, verdict) ==
    IF is_ack \/ ~requires
    THEN [built |-> 0, sent |-> 0, released |-> 0, n500 |-> 0, ret |-> "PJ_FALSE"]
    ELSE IF verdict \in {"CHALLENGE", "FAILED"}
    THEN [built |-> 1, sent |-> 1, released |-> 0, n500 |-> 0, ret |-> "PJ_TRUE"]
    ELSE IF verdict = "SUCCESS"
    THEN [built |-> 1, sent |-> 0, released |-> 1, n500 |-> 0, ret |-> "PJ_TRUE"]
    ELSE [built |-> 1, sent |-> 0, released |-> 1, n500 |-> 1, ret |-> "PJ_TRUE"]

(***************************************************************************)
(* authenticate: the outcome for (is ACK, requires authentication,         *)
(* verdict): whether a 401 is built, sent or released, whether a 500 is    *)
(* sent, and what the module returns.                                      *)
(***************************************************************************)
authenticate_outcome(is_ack, requires, verdict) ==
    IF is_ack \/ ~requires
    THEN [built |-> 0, sent |-> 0, released |-> 0, n500 |-> 0, ret |-> "PJ_FALSE"]
    ELSE IF verdict = "CHALLENGE"
    THEN [built |-> 1, sent |-> 1, released |-> 0, n500 |-> 0, ret |-> "PJ_TRUE"]
    ELSE IF verdict = "SUCCESS"
    THEN [built |-> 1, sent |-> 0, released |-> 1, n500 |-> 0, ret |-> "PJ_FALSE"]
    ELSE IF verdict = "FAILED"
    THEN [built |-> 1, sent |-> 1, released |-> 0, n500 |-> 0, ret |-> "PJ_TRUE"]
    ELSE [built |-> 1, sent |-> 0, released |-> 1, n500 |-> 1, ret |-> "PJ_TRUE"]

\* a distribute that answers 501 to an ACK nobody handled
distribute_sends_501_to_ack(handled, is_request, is_ack) == ~handled /\ is_request

\* line 575: the stateless 501 of distribute
distribute_sends_501(handled, is_request, is_ack) == ~handled /\ is_request /\ ~is_ack

\* a distribute that forgets the ao2_cleanup of the endpoint
distribute_releases_nothing(endpoint) == 0

\* lines 582-583: distribute releases the endpoint in the clone's slot
distribute_releases(endpoint) == IF endpoint = NULL THEN 0 ELSE 1

IsRequest(m) == h[m].kind.type = "REQ"

IsAck(m) == h[m].kind.method = "ACK" /\ IsRequest(m)

(***************************************************************************)
(* distribute, lines 562-574: the serializer's worker takes the next task  *)
(* and hands the clone to the library's pipeline, which starts after the   *)
(* distributor module.  A task whose clone is an indeterminate pointer     *)
(* kills the process or reads memory that is no message.                   *)
(***************************************************************************)
distribute_start(s, survives) ==
    LET m == Head(queue[s])
    IN  /\ Settled
        /\ w[s].stage = "idle"
        /\ queue[s] # <<>>
        /\ IF h[m].cstate # "live" /\ ~survives
           THEN /\ crashed' = TRUE
                /\ UNCHANGED <<queue, w, h>>
           ELSE IF h[m].cstate # "live"
           THEN /\ queue' = [queue EXCEPT ![s] = Tail(@)]
                /\ h' = [h EXCEPT ![m].phase = "final"]
                /\ UNCHANGED <<w, crashed>>
           ELSE /\ queue' = [queue EXCEPT ![s] = Tail(@)]
                /\ w' = [w EXCEPT ![s] =
                           [stage |-> IF IsRequest(m) THEN "endpoint_lookup" ELSE "modules",
                            m |-> m, handled |-> FALSE]]
                /\ h' = [h EXCEPT ![m].phase = "running", ![m].runs = @ + 1, ![m].ran_on = s]
                /\ UNCHANGED crashed
        /\ UNCHANGED <<envVars, annVars, hookVars, refcnt, obs>>
        /\ UNCHANGED sideVars

(***************************************************************************)
(* endpoint_lookup, the Endpoint Identifier's on_rx_request.               *)
(***************************************************************************)
endpoint_lookup(s, identified) ==
    LET m == w[s].m
        r == endpoint_lookup_result(h[m].ep, identified, IsAck(m))
    IN  /\ Settled
        /\ Registered("endpoint_mod")
        /\ w[s].stage = "endpoint_lookup"
        /\ r.taken # NULL => refcnt[r.taken] < MaxRefs
        /\ refcnt' = Ref(refcnt, r.taken, 1)
        /\ h' = [h EXCEPT ![m].ep = r.endpoint,
                          ![m].ident = r.ident,
                          ![m].id_result = IF r.ident = "skipped" THEN "uncalled"
                                           ELSE identified,
                          ![m].lookup_ret = r.ret,
                          ![m].ep_taken = @ + (IF r.taken = NULL THEN 0 ELSE 1)]
        /\ w' = [w EXCEPT ![s].stage = IF r.ret = "PJ_FALSE" THEN "authenticate" ELSE "finish",
                          ![s].handled = r.ret = "PJ_TRUE"]
        /\ UNCHANGED <<envVars, annVars, hookVars, queue, obs, crashed>>
        /\ UNCHANGED sideVars

\* the library passes over a module that is no longer registered
pipeline_skip(s) ==
    /\ Settled
    /\ \/ w[s].stage = "endpoint_lookup" /\ ~Registered("endpoint_mod")
          /\ w' = [w EXCEPT ![s].stage = "authenticate"]
       \/ w[s].stage = "authenticate" /\ ~Registered("auth_mod")
          /\ w' = [w EXCEPT ![s].stage = "modules"]
    /\ UNCHANGED <<envVars, annVars, hookVars, queue, refcnt, h, obs, crashed>>
    /\ UNCHANGED sideVars

(***************************************************************************)
(* authenticate, the Request Authenticator's on_rx_request.  It holds its  *)
(* own reference to the endpoint while it runs.  Where assertions are      *)
(* compiled to abort, a failed ast_assert kills the process.               *)
(***************************************************************************)
authenticate(s, configured, verdict, aborts) ==
    LET m == w[s].m
        endpoint == h[m].ep
        requires == ast_sip_requires_authentication(endpoint, configured)
        r == authenticate_outcome(IsAck(m), requires, verdict)
        own_ref == IF endpoint = NULL THEN 0 ELSE 1
    IN  /\ Settled
        /\ Registered("auth_mod")
        /\ w[s].stage = "authenticate"
        /\ verdict \in ast_sip_check_authentication(endpoint)
        /\ IF endpoint = NULL /\ aborts
           THEN /\ crashed' = TRUE
                /\ h' = [h EXCEPT ![m].ep_at_auth = NULL, ![m].assert_failed = TRUE]
                /\ UNCHANGED w
           ELSE /\ crashed' = crashed
                /\ h' = [h EXCEPT ![m] =
                           [@ EXCEPT !.ep_at_auth = endpoint,
                                     !.assert_failed = endpoint = NULL,
                                     !.requires = IF IsAck(m) THEN "none"
                                                  ELSE IF requires THEN "yes" ELSE "no",
                                     !.verdict = IF r.built = 0 THEN "none" ELSE verdict,
                                     !.auth_ret = r.ret,
                                     !.tdata_built = r.built, !.tdata_sent = r.sent,
                                     !.tdata_released = r.released,
                                     !.n401 = r.sent, !.n500 = r.n500,
                                     !.auth_refs = own_ref, !.auth_rels = own_ref]]
                /\ w' = [w EXCEPT ![s].stage = IF r.ret = "PJ_TRUE" THEN "finish" ELSE "modules",
                                  ![s].handled = r.ret = "PJ_TRUE"]
        /\ UNCHANGED <<envVars, annVars, hookVars, queue, refcnt, obs>>
        /\ UNCHANGED sideVars

(***************************************************************************)
(* The modules after the Authenticator (the application): some module      *)
(* consumes the message, or none does.                                     *)
(***************************************************************************)
application_modules(s, handled) ==
    LET m == w[s].m
    IN  /\ Settled
        /\ w[s].stage = "modules"
        /\ w' = [w EXCEPT ![s].stage = "finish", ![s].handled = handled]
        /\ h' = [h EXCEPT ![m].app = TRUE]
        /\ UNCHANGED <<envVars, annVars, hookVars, queue, refcnt, obs, crashed>>
        /\ UNCHANGED sideVars

(***************************************************************************)
(* distribute, lines 575-585: the 501 for a request nobody handled, the    *)
(* release of the endpoint in the clone's slot, the free of the clone.     *)
(***************************************************************************)
distribute_finish(s) ==
    LET m == w[s].m
        endpoint == h[m].ep
        released == distribute_releases(endpoint)
    IN  /\ Settled
        /\ w[s].stage = "finish"
        /\ refcnt' = Ref(refcnt, endpoint, 0 - released)
        /\ h' = [h EXCEPT ![m] =
                   [@ EXCEPT !.phase = "final", !.cstate = "freed", !.frees = @ + 1,
                             !.handled = IF w[s].handled THEN "yes" ELSE "no",
                             !.n501 = IF distribute_sends_501(w[s].handled, IsRequest(m),
                                                              IsAck(m))
                                      THEN @ + 1 ELSE @,
                             !.ep_released = @ + released,
                             !.done = TRUE]]
        /\ w' = [w EXCEPT ![s] = Idle]
        /\ UNCHANGED <<envVars, annVars, hookVars, queue, obs, crashed>>
        /\ UNCHANGED sideVars

\* the record of a message that is through is dropped
Forget(m) ==
    /\ ~crashed
    /\ h[m].phase = "final"
    /\ h' = [n \in Msgs |-> IF n = m THEN H0 ELSE [h[n] EXCEPT !.after = @ \ {m}]]
    /\ obs' = SelectSeq(obs, LAMBDA n : n # m)
    /\ UNCHANGED <<envVars, annVars, hookVars, taskVars, refcnt, crashed>>
    /\ UNCHANGED sideVars

(***************************************************************************)
(* The annotations.                                                        *)
(***************************************************************************)
\* distributor_dialog_data_alloc, when the dialog has no annotation yet
\* an allocation on every call
distributor_dialog_data_alloc_every_call(dist) ==
    [alloc |-> TRUE, allocs |-> dist.allocs + 1, serializer |-> NULL, endpoint |-> NULL]

distributor_dialog_data_alloc(dist) ==
    IF dist.alloc THEN dist ELSE [dist EXCEPT !.alloc = TRUE, !.allocs = @ + 1]

ast_sip_dialog_set_serializer(dlg, serializer) ==
    /\ Settled
    /\ dlg_mod_data' = [dlg_mod_data EXCEPT
                          ![dlg] = [distributor_dialog_data_alloc(@)
                                       EXCEPT !.serializer = serializer]]
    /\ calls' = [calls EXCEPT ![dlg].serializer = serializer]
    /\ UNCHANGED <<envVars, tdata_mod_data, tsx_last_tx, hookVars, taskVars, refcnt, h,
                   obs, crashed, hs, rs, lc, held, wv>>

ast_sip_dialog_set_endpoint(dlg, endpoint) ==
    /\ Settled
    /\ endpoint # NULL => refcnt[endpoint] > 0
    /\ dlg_mod_data' = [dlg_mod_data EXCEPT
                          ![dlg] = [distributor_dialog_data_alloc(@)
                                       EXCEPT !.endpoint = endpoint]]
    /\ calls' = [calls EXCEPT ![dlg].endpoint = endpoint]
    /\ UNCHANGED <<envVars, tdata_mod_data, tsx_last_tx, hookVars, taskVars, refcnt, h,
                   obs, crashed, hs, rs, lc, held, wv>>

\* lines 177-188: the caller gets the dialog's endpoint with a reference of
\* its own.  When the endpoint has been destroyed, ao2_ref works on freed
\* memory: the process dies, or the count is written where the object was.
ast_sip_dialog_get_endpoint(c, dlg, survives) ==
    LET dist == dlg_mod_data[dlg]
        endpoint == dist.endpoint
    IN  /\ Settled
        /\ held[c] = NULL
        /\ dist.alloc
        /\ endpoint # NULL
        /\ refcnt[endpoint] < MaxRefs
        /\ IF refcnt[endpoint] = 0 /\ ~survives
           THEN /\ crashed' = TRUE
                /\ UNCHANGED <<refcnt, held>>
           ELSE /\ refcnt' = Ref(refcnt, endpoint, 1)
                /\ held' = [held EXCEPT ![c] = endpoint]
                /\ UNCHANGED crashed
        /\ UNCHANGED <<envVars, annVars, hookVars, taskVars, h, obs, hs, calls, rs, lc, wv>>

\* a caller gives up the reference it holds
caller_release(c) ==
    /\ Settled
    /\ held[c] # NULL
    /\ refcnt[held[c]] > 0
    /\ refcnt' = Ref(refcnt, held[c], 0 - 1)
    /\ held' = [held EXCEPT ![c] = NULL]
    /\ UNCHANGED <<envVars, annVars, hookVars, taskVars, h, obs, crashed, hs, calls, rs, lc, wv>>

\* ast_taskprocessor_name
ast_taskprocessor_name(serializer) == IF serializer = NONAME THEN "" ELSE serializer

\* a test that does not compare with the stored name
record_serializer_changes_any_name(stored, name) == ~ast_strlen_zero(name)

\* lines 64-66: the name is not empty and the buffer holds none or another
record_serializer_changes(stored, name) ==
    /\ ~ast_strlen_zero(name)
    /\ (stored = NULL \/ stored # name)

\* the name record_serializer leaves on a transmit buffer that holds stored,
\* when current is the serializer the calling task runs on
record_serializer_name(stored, current) ==
    IF current = NULL THEN stored
    ELSE IF record_serializer_changes(stored, ast_taskprocessor_name(current))
    THEN ast_taskprocessor_name(current)
    ELSE stored

record_serializer(tdata, current) ==
    /\ Settled
    /\ current # NULL => current \in tps_alive
    /\ tdata_mod_data' = [tdata_mod_data EXCEPT
                            ![tdata] = record_serializer_name(@, current)]
    /\ UNCHANGED <<envVars, dlg_mod_data, tsx_last_tx, hookVars, taskVars, refcnt, h,
                   obs, crashed>>
    /\ UNCHANGED sideVars

\* the transaction layer keeps the request it transmitted as last_tx
tsx_send_msg(tsx, tdata) ==
    /\ Settled
    /\ tsx_last_tx[tsx] = NULL
    /\ tsx_last_tx' = [tsx_last_tx EXCEPT ![tsx] = tdata]
    /\ UNCHANGED <<envVars, dlg_mod_data, tdata_mod_data, hookVars, taskVars, refcnt, h,
                   obs, crashed>>
    /\ UNCHANGED sideVars

(***************************************************************************)
(* The environment: boot completes, the overload alert comes and goes, a   *)
(* serializer that is idle and unreferenced goes away.                     *)
(***************************************************************************)
Boot ==
    /\ Settled
    /\ ~fully_booted
    /\ fully_booted' = TRUE
    /\ UNCHANGED <<alert, distributor_pool, tps_alive, annVars, hookVars, taskVars,
                   refcnt, h, obs, crashed>>
    /\ UNCHANGED sideVars

AlertChange ==
    /\ Settled
    /\ alert' = ~alert
    /\ UNCHANGED <<fully_booted, distributor_pool, tps_alive, annVars, hookVars,
                   taskVars, refcnt, h, obs, crashed>>
    /\ UNCHANGED sideVars

SerializerShutdown(s) ==
    /\ Settled
    /\ s \in tps_alive
    /\ queue[s] = <<>>
    /\ w[s].stage = "idle"
    /\ \A t \in Threads : hk[t].serializer # s
    /\ tps_alive' = tps_alive \ {s}
    /\ UNCHANGED <<fully_booted, alert, distributor_pool, annVars, hookVars, taskVars,
                   refcnt, h, obs, crashed>>
    /\ UNCHANGED sideVars

(***************************************************************************)
(* Spec: the hook and everything it reads, for every kind of message, with *)
(* every outcome of the pipeline.                                          *)
(***************************************************************************)
Next ==
    \/ \E t \in Threads, k \in MsgKinds : distributor_lookup(t, k, MaxInFlight)
    \/ \E t \in Threads, clone_ok, push_ok, survives \in BOOLEAN :
           distributor_dispatch(t, clone_ok, push_ok, survives)
    \/ \E s \in Serializers, survives \in BOOLEAN : distribute_start(s, survives)
    \/ \E s \in Serializers, identified \in {E1, NULL} : endpoint_lookup(s, identified)
    \/ \E s \in Serializers, configured, aborts \in BOOLEAN, verdict \in Verdicts :
           authenticate(s, configured, verdict, aborts)
    \/ \E s \in Serializers, handled \in BOOLEAN : application_modules(s, handled)
    \/ \E s \in Serializers : distribute_finish(s)
    \/ \E m \in Msgs : Forget(m)
    \/ \E d \in Dialogs, s \in {NULL, DLGSER} : ast_sip_dialog_set_serializer(d, s)
    \/ \E d \in Dialogs, e \in {NULL, E1} : ast_sip_dialog_set_endpoint(d, e)
    \/ \E q \in Tdatas, current \in {NULL, WRK} : record_serializer(q, current)
    \/ \E x \in UacTsx, q \in Tdatas : tsx_send_msg(x, q)
    \/ Boot
    \/ AlertChange
    \/ SerializerShutdown(WRK)

Spec == Init /\ [][Next]_vars

(***************************************************************************)
(* SpecOrder: the messages of one dialog and a request outside it,         *)
(* arriving on several transport threads with one more message in flight;  *)
(* every request is identified and handled.                                *)
(***************************************************************************)
NextOrder ==
    \/ \E t \in Threads, k \in OrderKinds : distributor_lookup(t, k, MaxInFlight + 1)
    \/ \E t \in Threads, push_ok \in BOOLEAN : distributor_dispatch(t, TRUE, push_ok, TRUE)
    \/ \E s \in Serializers : distribute_start(s, TRUE)
    \/ \E s \in Serializers : endpoint_lookup(s, E1)
    \/ \E s \in Serializers : authenticate(s, FALSE, "SUCCESS", FALSE)
    \/ \E s \in Serializers : application_modules(s, TRUE)
    \/ \E s \in Serializers : distribute_finish(s)
    \/ \E m \in Msgs : Forget(m)
    \/ \E d \in Dialogs, s \in {NULL, DLGSER} : ast_sip_dialog_set_serializer(d, s)
    \/ Boot

SpecOrder == Init /\ [][NextOrder]_vars

(***************************************************************************)
(* SpecHash: ast_sip_get_distributor_serializer on its own, statement by   *)
(* statement, for Call-IDs and tags that include the empty tag, bytes with *)
(* the high bit set and a pair whose hash is the most negative int, on     *)
(* builds with signed and unsigned char and with 32- and 64-bit size_t.    *)
(***************************************************************************)
\* Call-IDs: "a@x", two bytes of which one has the high bit set, "bcy@f"
HashCallIds == {CID, <<200, 3>>, <<98, 99, 121, 64, 102>>}

\* tags: none, "f1", one byte with the high bit set, ".5"
HashTags == {NOTAG, TAG_F1, <<255>>, <<46, 53>>}

HashInputs ==
    [stage : {"start"}, type : {"REQ", "RESP"}, cid : HashCallIds, from_tag : HashTags,
     to_tag : {NOTAG, TAG_R}, signedChar : BOOLEAN, bits : SizeTBits, raw : {<<0, 0>>},
     hash : {<<0, 0>>}, idx : {0}, serializer : {NULL}]

InitHash ==
    /\ fully_booted = TRUE
    /\ alert = FALSE
    /\ distributor_pool = [i \in PoolIdx |-> PoolName(i)]
    /\ tps_alive = Serializers
    /\ dlg_mod_data = [d \in Dialogs |-> NoDist]
    /\ tdata_mod_data = [q \in Tdatas |-> NULL]
    /\ tsx_last_tx = [x \in UacTsx |-> NULL]
    /\ refcnt = [e \in Endpoints |-> 1]
    /\ pc = [t \in Threads |-> "idle"]
    /\ hk = [t \in Threads |-> NoLocals]
    /\ queue = [s \in Serializers |-> <<>>]
    /\ w = [s \in Serializers |-> Idle]
    /\ h = [m \in Msgs |-> H0]
    /\ obs = <<>>
    /\ crashed = FALSE
    /\ hs \in HashInputs
    /\ calls = [d \in Dialogs |-> NoCalls]
    /\ rs = NoRecord
    /\ lc = NoLife
    /\ held = NoHeld
    /\ wv = NoWav

\* line 316: hash = pjstr_hash(&rdata->msg_info.cid->id)
hash_call_id ==
    /\ hs.stage = "start"
    /\ hs' = [hs EXCEPT !.stage = "cid", !.hash = pjstr_hash(hs.cid, hs.signedChar)]
    /\ UNCHANGED <<mainVars, calls, rs, lc, held, wv>>

\* line 317: hash = pjstr_hash_add(remote_tag, hash)
hash_add_remote_tag ==
    /\ hs.stage = "cid"
    /\ hs' = [hs EXCEPT !.stage = "tag",
                        !.hash = pjstr_hash_add(hash_remote_tag(hs), hs.hash, hs.signedChar),
                        !.raw = pjstr_hash_add(hash_remote_tag(hs), hs.hash, hs.signedChar)]
    /\ UNCHANGED <<mainVars, calls, rs, lc, held, wv>>

\* line 318: hash = abs(hash)
hash_abs(wraps) ==
    /\ hs.stage = "tag"
    /\ hs' = [hs EXCEPT !.stage = "abs", !.hash = abs_result(hs.hash, wraps)]
    /\ UNCHANGED <<mainVars, calls, rs, lc, held, wv>>

\* line 320: serializer = ao2_bump(distributor_pool[hash % ARRAY_LEN(...)]);
\* an index outside the array reads whatever lies there
hash_index ==
    LET idx == Mod32(hs.hash, DISTRIBUTOR_POOL_SIZE, hs.bits)
    IN  /\ hs.stage = "abs"
        /\ hs' = [hs EXCEPT !.stage = "idx", !.idx = idx,
                            !.serializer = IF idx \in PoolIdx THEN distributor_pool[idx]
                                           ELSE "invalid"]
        /\ UNCHANGED <<mainVars, calls, rs, lc, held, wv>>

NextHash ==
    \/ hash_call_id
    \/ hash_add_remote_tag
    \/ \E wraps \in BOOLEAN : hash_abs(wraps)
    \/ hash_index

SpecHash == InitHash /\ [][NextHash]_vars

(***************************************************************************)
(* SpecRecord: record_serializer on its own, statement by statement, for   *)
(* transmit buffers that hold no name or a name, called on a thread that   *)
(* runs no serializer, a serializer without a name or a named serializer.  *)
(***************************************************************************)
RecordNames == {WRK, DLGSER, PoolName(0), PoolName(DISTRIBUTOR_POOL_SIZE - 1)}

RecordInputs ==
    [stage : {"call"}, before : {NULL} \cup RecordNames, stored : {NULL} \cup RecordNames,
     current : {NULL, NONAME} \cup RecordNames, serializer : {NULL}, name : {NULL},
     allocs : {0}, ret : {"none"}]

InitRecord ==
    /\ MainInit
    /\ hs = NoHash
    /\ calls = [d \in Dialogs |-> NoCalls]
    /\ rs \in {r \in RecordInputs : r.before = r.stored}
    /\ lc = NoLife
    /\ held = NoHeld
    /\ wv = NoWav

\* line 59: serializer = ast_threadpool_serializer_get_current()
record_get_current ==
    /\ rs.stage = "call"
    /\ rs' = [rs EXCEPT !.stage = "current", !.serializer = rs.current]
    /\ UNCHANGED <<mainVars, hs, calls, lc, held, wv>>

\* lines 60-63: name = ast_taskprocessor_name(serializer)
record_name ==
    /\ rs.stage = "current"
    /\ rs.serializer # NULL
    /\ rs' = [rs EXCEPT !.stage = "name", !.name = ast_taskprocessor_name(rs.serializer)]
    /\ UNCHANGED <<mainVars, hs, calls, lc, held, wv>>

\* lines 64-74: the name is copied into memory of the buffer's pool and the
\* copy becomes the annotation
record_store ==
    /\ rs.stage = "name"
    /\ record_serializer_changes(rs.stored, rs.name)
    /\ rs' = [rs EXCEPT !.stage = "stored", !.allocs = @ + 1, !.stored = rs.name]
    /\ UNCHANGED <<mainVars, hs, calls, lc, held, wv>>

\* line 77: return PJ_SUCCESS
record_return ==
    /\ \/ rs.stage = "current" /\ rs.serializer = NULL
       \/ rs.stage = "name" /\ ~record_serializer_changes(rs.stored, rs.name)
       \/ rs.stage = "stored"
    /\ rs' = [rs EXCEPT !.stage = "returned", !.ret = "PJ_SUCCESS"]
    /\ UNCHANGED <<mainVars, hs, calls, lc, held, wv>>

NextRecord ==
    \/ record_get_current
    \/ record_name
    \/ record_store
    \/ record_return

SpecRecord == InitRecord /\ [][NextRecord]_vars

(***************************************************************************)
(* SpecLife: ast_sip_initialize_distributor and ast_sip_destroy_distributor *)
(* statement by statement; the creation of any serializer, of the          *)
(* artificial endpoint and auth and any registration can fail.             *)
(***************************************************************************)
InitLife ==
    /\ MainInit
    /\ hs = NoHash
    /\ calls = [d \in Dialogs |-> NoCalls]
    /\ rs = NoRecord
    /\ lc = [NoLife EXCEPT !.stage = "pool_setup"]
    /\ held = NoHeld
    /\ wv = NoWav

\* lines 627-635: one turn of the loop of distributor_pool_setup, and lines
\* 641-644
pool_setup_step(created) ==
    /\ lc.stage = "pool_setup"
    /\ lc.idx < DISTRIBUTOR_POOL_SIZE
    /\ lc' = IF created
             THEN [lc EXCEPT !.pool[lc.idx] = PoolName(lc.idx), !.tps_refs[lc.idx] = 1,
                             !.idx = @ + 1,
                             !.stage = IF lc.idx + 1 < DISTRIBUTOR_POOL_SIZE
                                       THEN "pool_setup" ELSE "create_endpoint"]
             ELSE [lc EXCEPT !.failed = "pool_setup", !.stage = "unregister_auth_mod"]
    /\ UNCHANGED <<mainVars, hs, calls, rs, held, wv>>

\* lines 454-468 and 646
create_artificial_endpoint(created) ==
    /\ lc.stage = "create_endpoint"
    /\ lc' = IF created
             THEN [lc EXCEPT !.artificial_endpoint = ART, !.ep_refs = 1,
                             !.stage = "create_auth"]
             ELSE [lc EXCEPT !.failed = "create_endpoint", !.stage = "unregister_auth_mod"]
    /\ UNCHANGED <<mainVars, hs, calls, rs, held, wv>>

\* lines 431-443 and 646
create_artificial_auth(created) ==
    /\ lc.stage = "create_auth"
    /\ lc' = IF created
             THEN [lc EXCEPT !.artificial_auth = "artificial", !.auth_refs = 1,
                             !.stage = "register_distributor_mod"]
             ELSE [lc EXCEPT !.failed = "create_auth", !.stage = "unregister_auth_mod"]
    /\ UNCHANGED <<mainVars, hs, calls, rs, held, wv>>

\* internal_sip_register_service: the module is registered, or it is not and
\* the call fails
internal_sip_register_service(registered, module, ok) ==
    IF ok THEN registered \cup {module} ELSE registered

\* internal_sip_unregister_service
internal_sip_unregister_service(registered, module) == registered \ {module}

\* lines 651-662: the three registrations, and the return at 664
register_module(n, ok) ==
    /\ lc.stage = "register_" \o Modules[n]
    /\ lc' = IF ok
             THEN [lc EXCEPT !.registered =
                                 internal_sip_register_service(@, Modules[n], TRUE),
                             !.stage = IF n < Len(Modules)
                                       THEN "register_" \o Modules[n + 1]
                                       ELSE "initialized",
                             !.ret = IF n < Len(Modules) THEN "none" ELSE "0"]
             ELSE [lc EXCEPT !.registered =
                                 internal_sip_register_service(@, Modules[n], FALSE),
                             !.failed = "register_" \o Modules[n],
                             !.stage = "unregister_auth_mod"]
    /\ UNCHANGED <<mainVars, hs, calls, rs, held, wv>>

\* a caller shuts the subsystem down
shutdown ==
    /\ lc.stage = "initialized"
    /\ lc' = [lc EXCEPT !.stage = "unregister_auth_mod"]
    /\ UNCHANGED <<mainVars, hs, calls, rs, held, wv>>

\* a destroy that leaves the modules registered
destroy_unregisters_nothing(registered, module) == registered

\* lines 669-671: auth_mod, endpoint_mod, distributor_mod, in this order
destroy_unregisters(registered, module) ==
    internal_sip_unregister_service(registered, module)

destroy_unregister(n) ==
    /\ lc.stage = "unregister_" \o Modules[n]
    /\ lc' = [lc EXCEPT !.registered = destroy_unregisters(@, Modules[n]),
                        !.stage = IF n > 1 THEN "unregister_" \o Modules[n - 1]
                                  ELSE "cleanup_auth"]
    /\ UNCHANGED <<mainVars, hs, calls, rs, held, wv>>

\* ao2_cleanup: nothing for a null pointer, one reference less otherwise
ao2_cleanup(ptr, refs) == IF ptr = NULL THEN refs ELSE refs - 1

\* line 673: ao2_cleanup(artificial_auth)
destroy_cleanup_auth ==
    /\ lc.stage = "cleanup_auth"
    /\ lc' = [lc EXCEPT !.auth_refs = ao2_cleanup(lc.artificial_auth, @),
                        !.stage = "cleanup_endpoint"]
    /\ UNCHANGED <<mainVars, hs, calls, rs, held, wv>>

\* line 674: ao2_cleanup(artificial_endpoint)
destroy_cleanup_endpoint ==
    /\ lc.stage = "cleanup_endpoint"
    /\ lc' = [lc EXCEPT !.ep_refs = ao2_cleanup(lc.artificial_endpoint, @),
                        !.stage = "pool_shutdown"]
    /\ UNCHANGED <<mainVars, hs, calls, rs, held, wv>>

\* lines 604-612: every entry is unreferenced (nothing for a null entry)
\* and set to null
distributor_pool_shutdown ==
    /\ lc.stage = "pool_shutdown"
    /\ lc' = [lc EXCEPT !.tps_refs = [i \in PoolIdx |->
                                         IF lc.pool[i] = NULL THEN @[i] ELSE @[i] - 1],
                        !.pool = [i \in PoolIdx |-> NULL],
                        !.stage = "destroyed",
                        !.ret = IF lc.failed = "none" THEN lc.ret ELSE "-1"]
    /\ UNCHANGED <<mainVars, hs, calls, rs, held, wv>>

NextLife ==
    \/ \E created \in BOOLEAN : pool_setup_step(created)
    \/ \E created \in BOOLEAN : create_artificial_endpoint(created)
    \/ \E created \in BOOLEAN : create_artificial_auth(created)
    \/ \E n \in 1..Len(Modules), ok \in BOOLEAN : register_module(n, ok)
    \/ shutdown
    \/ \E n \in 1..Len(Modules) : destroy_unregister(n)
    \/ destroy_cleanup_auth
    \/ destroy_cleanup_endpoint
    \/ distributor_pool_shutdown

SpecLife == InitLife /\ [][NextLife]_vars

(***************************************************************************)
(* SpecRepeat: ast_sip_initialize_distributor and                          *)
(* ast_sip_destroy_distributor called again after a destroy has finished.  *)
(* The file's static pointers keep what the earlier calls left in them.    *)
(***************************************************************************)
\* ast_sip_destroy_distributor is called once more: after a shutdown, or
\* after an initialization that failed and unwound itself
destroy_again ==
    /\ lc.stage = "destroyed"
    /\ lc.ep_refs >= 0
    /\ lc.auth_refs >= 0
    /\ lc' = [lc EXCEPT !.stage = "unregister_auth_mod", !.failed = "none", !.ret = "none"]
    /\ UNCHANGED <<mainVars, hs, calls, rs, held, wv>>

\* ast_sip_initialize_distributor is called once more
initialize_again ==
    /\ lc.stage = "destroyed"
    /\ lc.ep_refs >= 0
    /\ lc.auth_refs >= 0
    /\ lc' = [lc EXCEPT !.stage = "pool_setup", !.idx = 0, !.failed = "none",
                        !.ret = "none"]
    /\ UNCHANGED <<mainVars, hs, calls, rs, held, wv>>

NextRepeat ==
    \/ \E created \in BOOLEAN : pool_setup_step(created)
    \/ \E created \in BOOLEAN : create_artificial_endpoint(created)
    \/ \E created \in BOOLEAN : create_artificial_auth(created)
    \/ \E n \in 1..Len(Modules), ok \in BOOLEAN : register_module(n, ok)
    \/ shutdown
    \/ \E n \in 1..Len(Modules) : destroy_unregister(n)
    \/ destroy_cleanup_auth
    \/ destroy_cleanup_endpoint
    \/ distributor_pool_shutdown
    \/ destroy_again
    \/ initialize_again

SpecRepeat == InitLife /\ [][NextRepeat]_vars

(***************************************************************************)
(* SpecShutdown: ast_sip_destroy_distributor called while requests arrive  *)
(* and distribute tasks are queued or running.                             *)
(***************************************************************************)
ShutdownKinds == {Msg("REQ", "INVITE", TAG_F1, NOTAG, "b0")}

NextShutdown ==
    \/ \E t \in Threads, k \in ShutdownKinds : distributor_lookup(t, k, MaxInFlight + 1)
    \/ \E t \in Threads : distributor_dispatch(t, TRUE, TRUE, TRUE)
    \/ \E s \in Serializers : distribute_start(s, TRUE)
    \/ \E s \in Serializers : endpoint_lookup(s, E1)
    \/ \E s \in Serializers : authenticate(s, FALSE, "SUCCESS", FALSE)
    \/ \E s \in Serializers : pipeline_skip(s)
    \/ \E s \in Serializers : application_modules(s, TRUE)
    \/ \E s \in Serializers : distribute_finish(s)
    \/ \E m \in Msgs : Forget(m)
    \/ Boot
    \/ shutdown
    \/ \E n \in 1..Len(Modules) : destroy_unregister(n)
    \/ destroy_cleanup_auth
    \/ destroy_cleanup_endpoint
    \/ distributor_pool_shutdown

SpecShutdown == Init /\ [][NextShutdown]_vars

(***************************************************************************)
(* SpecEndpoint: the endpoint of a dialog set and got by callers that take *)
(* and give up references, with no message in flight.                      *)
(***************************************************************************)
NextEndpoint ==
    \/ \E d \in Dialogs, e \in {NULL, E1, ART} : ast_sip_dialog_set_endpoint(d, e)
    \/ \E d \in Dialogs, s \in {NULL, DLGSER} : ast_sip_dialog_set_serializer(d, s)
    \/ \E c \in GetterCallers, d \in Dialogs, survives \in BOOLEAN :
           ast_sip_dialog_get_endpoint(c, d, survives)
    \/ \E c \in Callers : caller_release(c)

SpecEndpoint == Init /\ [][NextEndpoint]_vars

(***************************************************************************)
(* What the properties speak of.                                           *)
(***************************************************************************)
ObsPos(m) == CHOOSE i \in 1..Len(obs) : obs[i] = m

\* the hook saw m1 before it saw m2
ObservedBefore(m1, m2) ==
    /\ m1 \in InFlight
    /\ m2 \in InFlight
    /\ ObsPos(m1) < ObsPos(m2)

QueuePos(s, m) == CHOOSE i \in 1..Len(queue[s]) : queue[s][i] = m

InQueue(s, m) == \E i \in 1..Len(queue[s]) : queue[s][i] = m

\* both messages found the dialog's annotation carrying the same serializer
SameDialogSerializer(m1, m2) ==
    /\ h[m1].dlg_ser # NULL
    /\ h[m2].dlg_ser = h[m1].dlg_ser

(***************************************************************************)
(* C1                                                                      *)
(***************************************************************************)
\* C1 as stated: of two messages of a dialog whose annotation carries the
\* serializer S, the one the hook saw first is enqueued onto S first: when the
\* second is on S, the first has been enqueued, is ahead of it in the queue,
\* and the second is not processed while the first is not through.
C1_ObservedOrderIsQueueOrder ==
    \A m1, m2 \in Msgs :
        (/\ ObservedBefore(m1, m2)
         /\ SameDialogSerializer(m1, m2)
         /\ h[m2].enq = 1)
        => /\ h[m1].enq = 1
           /\ h[m1].phase = "queued" => /\ InQueue(h[m1].ser, m2)
                                        /\ QueuePos(h[m1].ser, m1) < QueuePos(h[m1].ser, m2)
           /\ h[m1].phase = "running" => h[m2].phase = "queued"

\* C1: of two messages of a dialog whose annotation carries the serializer S,
\* where the hook had returned from enqueueing the first before it was entered
\* for the second, both are enqueued onto S, the first ahead of the second, and
\* the second is not processed before the first is through.
C1_ReturnedOrderIsQueueOrder ==
    \A m2 \in Msgs : \A m1 \in h[m2].after :
        (/\ SameDialogSerializer(m1, m2)
         /\ h[m1].phase \in {"queued", "running"}
         /\ h[m2].enq = 1)
        => /\ h[m1].ser = h[m1].dlg_ser
           /\ h[m2].ser = h[m1].dlg_ser
           /\ h[m2].phase = "queued"
           /\ InQueue(h[m1].dlg_ser, m2)
           /\ h[m1].phase = "queued" => /\ InQueue(h[m1].dlg_ser, m1)
                                        /\ QueuePos(h[m1].dlg_ser, m1)
                                               < QueuePos(h[m1].dlg_ser, m2)
           /\ h[m1].phase = "running" => h[m1].ran_on = h[m1].dlg_ser

\* the first of two messages of the dialog is being processed on the dialog's
\* serializer while the second waits in its queue
C1_Witness ==
    \E m2 \in Msgs : \E m1 \in h[m2].after :
        /\ SameDialogSerializer(m1, m2)
        /\ h[m1].phase = "running"
        /\ h[m1].ran_on = DLGSER
        /\ h[m2].phase = "queued"
        /\ InQueue(DLGSER, m2)

(***************************************************************************)
(* C2                                                                      *)
(***************************************************************************)
\* the hook has decided what to do with the message
Decided(m) == h[m].path # "none"

\* the hook has returned for the message
Returned(m) == h[m].ret # "none"

\* the message is a response to a request recorded with the name of a
\* serializer that existed when the response arrived
ResponseToRecorded(m) ==
    /\ h[m].kind.type = "RESP"
    /\ h[m].req_name # NULL
    /\ h[m].req_alive

\* the task of the message is on serializer s: waiting in its queue, being
\* run by it, or run by it to the end
TaskOn(m, s) ==
    /\ h[m].enq = 1
    /\ h[m].ser = s
    /\ h[m].phase = "queued" => InQueue(s, m)
    /\ h[m].phase \in {"running", "final"} /\ h[m].runs = 1 => h[m].ran_on = s

\* C2 as stated: a response matching the client transaction of a request
\* recorded with the name of serializer S is enqueued onto S, unless no
\* serializer of that name exists when the response arrives.
C2_ResponseGoesToRecorded ==
    \A m \in Msgs :
        ResponseToRecorded(m) /\ Returned(m) => TaskOn(m, h[m].req_name)

\* C2: after boot, a response matching no dialog that carries a serializer,
\* and matching the client transaction of a request recorded with the name of
\* serializer S existing at arrival, is dispatched to S, and is on S once the
\* push has succeeded; when no serializer of the recorded name exists, the
\* response is shed under overload and hashed to the pool otherwise.
C2_UnaffiliatedResponseGoesToRecorded ==
    \A m \in Msgs :
        (/\ h[m].kind.type = "RESP"
         /\ h[m].req_name # NULL
         /\ h[m].booted
         /\ h[m].dlg_ser = NULL
         /\ Decided(m))
        => IF h[m].req_alive
           THEN /\ h[m].ser = h[m].req_name
                /\ h[m].path \in {"dispatch", "enq_ok", "enq_fail", "crash"}
                /\ h[m].path = "enq_ok" => TaskOn(m, h[m].req_name)
           ELSE /\ h[m].tsx_ser = NULL
                /\ IF h[m].alerted
                   THEN h[m].path = "overload" /\ h[m].enq = 0
                   ELSE h[m].ser = PoolName(distributor_hash(h[m].kind))

\* a response is running on the serializer recorded with its request
C2_Witness ==
    \E m \in Msgs :
        /\ ResponseToRecorded(m)
        /\ h[m].dlg_ser = NULL
        /\ h[m].req_name = WRK
        /\ h[m].phase = "running"
        /\ h[m].ran_on = WRK

(***************************************************************************)
(* C3                                                                      *)
(***************************************************************************)
\* neither the dialog nor, for a response, the client transaction gives the
\* message a serializer
NoAffinity(m) ==
    /\ h[m].dlg_ser = NULL
    /\ h[m].kind.type = "RESP" => ~(h[m].req_name # NULL /\ h[m].req_alive)

\* the hook did nothing with the message but return
SilentDrop(m) ==
    /\ h[m].clones = 0
    /\ h[m].enq = 0
    /\ h[m].n481 = 0
    /\ h[m].runs = 0

C4_TaskReleasesOnceFreesOnce ==
    \A m \in Msgs :
        h[m].done
        => /\ h[m].enq = 1
           /\ h[m].frees = 1
           /\ h[m].cstate = "freed"
           /\ h[m].ep_taken = (IF h[m].ep = NULL THEN 0 ELSE 1)
           /\ h[m].ep_released = h[m].ep_taken
           /\ h[m].auth_rels = h[m].auth_refs
           /\ h[m].ep = NULL => IsAck(m) \/ ~IsRequest(m)

\* the task of a request that was not identified and was answered 401 has
\* returned, the synthetic endpoint's reference released
C4_Witness ==
    \E m \in Msgs :
        /\ h[m].done
        /\ h[m].ep = ART
        /\ h[m].n401 = 1
        /\ h[m].ep_taken = 1
        /\ h[m].ep_released = 1
        /\ h[m].frees = 1

(***************************************************************************)
(* C5                                                                      *)
(***************************************************************************)
\* the pipeline after the distributor has seen the message
InPipeline(m) ==
    \/ h[m].runs > 0
    \/ h[m].transport_runs > 0
    \/ h[m].ident # "none"
    \/ h[m].ep_at_auth # "none"
    \/ h[m].app

\* how often the task of the message is in the queue of the serializer
TimesQueued(s, m) == Cardinality({i \in 1..Len(queue[s]) : queue[s][i] = m})

\* C5: a message the pipeline after the distributor has seen is in one
\* distribute task, that was cloned once, enqueued once and is run once by the
\* serializer the hook chose; a task waits in one queue only, once; the hook's
\* return never lets the library run the pipeline on the transport thread.
C5_OneTaskOneSerializer ==
    \A m \in Msgs :
        /\ h[m].transport_runs = 0
        /\ InPipeline(m) => /\ h[m].phase \in {"running", "final"}
                            /\ h[m].clones = 1
                            /\ h[m].enq = 1
                            /\ h[m].runs = 1
                            /\ h[m].ran_on = h[m].ser
                            /\ h[m].ret = "PJ_TRUE"
                            /\ \A s \in Serializers : TimesQueued(s, m) = 0
        /\ h[m].phase = "running"
               => Cardinality({s \in Serializers : w[s].stage # "idle" /\ w[s].m = m}) = 1
        /\ h[m].phase = "queued"
               => /\ TimesQueued(h[m].ser, m) = 1
                  /\ \A s \in Serializers \ {h[m].ser} : TimesQueued(s, m) = 0
        /\ h[m].phase \in {"free", "hook"} => \A s \in Serializers : TimesQueued(s, m) = 0

\* a request has gone through the Endpoint Identifier, the Authenticator and
\* the application inside its task on a pool serializer
C5_Witness ==
    \E m \in Msgs :
        /\ h[m].app
        /\ h[m].ident = "ok"
        /\ h[m].runs = 1
        /\ h[m].ran_on \in {PoolName(i) : i \in PoolIdx}
        /\ h[m].phase = "running"

(***************************************************************************)
(* C6                                                                      *)
(***************************************************************************)
\* C6: once the hook is through with a message, on whichever path (boot gate,
\* overload drop, 481, enqueue success, enqueue failure), it has returned
\* PJ_TRUE.
C6_HookReturnsConsumed ==
    \A m \in Msgs :
        /\ Returned(m) => h[m].ret = "PJ_TRUE"
        /\ h[m].phase \in {"queued", "running", "final"}
               => /\ Returned(m)
                  /\ h[m].path \in {"boot", "overload", "481", "enq_ok", "enq_fail"}
        /\ h[m].path \in {"boot", "overload", "481", "enq_ok", "enq_fail"} => Returned(m)

\* the hook has returned after a failed push
C6_Witness ==
    \E m \in Msgs :
        /\ h[m].path = "enq_fail"
        /\ h[m].clones = 1
        /\ h[m].ret = "PJ_TRUE"

(***************************************************************************)
(* C7                                                                      *)
(***************************************************************************)
\* C7: for a message that arrives while the fully-booted flag is not set the
\* hook looks up no dialog and no transaction, reads no alert, takes no
\* serializer, clones nothing, enqueues nothing, sends nothing, and returns
\* PJ_TRUE.
C7_BootGate ==
    \A m \in Msgs :
        h[m].phase # "free" /\ ~h[m].booted
        => /\ h[m].path = "boot"
           /\ h[m].ret = "PJ_TRUE"
           /\ h[m].dlg_lookups = 0
           /\ h[m].tsx_lookups = 0
           /\ h[m].alert = "unread"
           /\ h[m].ser_acq = 0
           /\ SilentDrop(m)

\* a BYE matching no dialog has been ignored before boot
C7_Witness ==
    \E m \in Msgs :
        /\ ~h[m].booted
        /\ h[m].kind.method = "BYE"
        /\ h[m].path = "boot"
        /\ h[m].ret = "PJ_TRUE"

(***************************************************************************)
(* C8                                                                      *)
(***************************************************************************)
\* a BYE or CANCEL request
ByeOrCancel(m) == IsRequest(m) /\ h[m].kind.method \in {"BYE", "CANCEL"}

\* C8: after boot a BYE or CANCEL request whose dialog lookup gave no
\* serializer is answered one 481 by the hook, and is neither cloned nor
\* enqueued; the hook answers 481 to nothing else.
C8_ByeCancel481 ==
    \A m \in Msgs :
        /\ (h[m].phase # "free" /\ h[m].booted /\ ByeOrCancel(m) /\ h[m].dlg_ser = NULL)
               => /\ h[m].path = "481"
                  /\ h[m].n481 = 1
                  /\ h[m].ret = "PJ_TRUE"
                  /\ h[m].clones = 0
                  /\ h[m].enq = 0
                  /\ h[m].runs = 0
        /\ h[m].n481 > 0 => h[m].booted /\ ByeOrCancel(m) /\ h[m].dlg_ser = NULL

\* a BYE on a dialog whose annotation carries no serializer has been answered
\* 481 while the overload signal was set
C8_Witness ==
    \E m \in Msgs :
        /\ h[m].kind.method = "BYE"
        /\ h[m].dlg # NULL
        /\ h[m].dlg_ser = NULL
        /\ h[m].alerted
        /\ h[m].n481 = 1
        /\ h[m].enq = 0

(***************************************************************************)
(* C9                                                                      *)
(***************************************************************************)
\* a request other than ACK that the identifier service did not identify
Unidentified(m) == IsRequest(m) /\ ~IsAck(m) /\ h[m].ident = "failed"

\* C9: a request other than ACK that was not identified carries the synthetic
\* endpoint from the Endpoint Identifier on; the Authenticator finds it to
\* require authentication, answers 401 or 500 and consumes it; the modules
\* after the Authenticator never see it.
C9_UnidentifiedStopsAtAuthenticator ==
    \A m \in Msgs :
        Unidentified(m)
        => /\ h[m].ep = ART
           /\ ~h[m].app
           /\ h[m].ep_at_auth # "none"
                  => /\ h[m].ep_at_auth = ART
                     /\ h[m].requires = "yes"
                     /\ h[m].auth_ret = "PJ_TRUE"
                     /\ h[m].n401 + h[m].n500 = 1
           /\ h[m].done => h[m].ep_at_auth = ART /\ h[m].handled = "yes" /\ h[m].n501 = 0

\* an unidentified INVITE has been answered 500 by the Authenticator and its
\* task has returned
C9_Witness ==
    \E m \in Msgs :
        /\ Unidentified(m)
        /\ h[m].kind.method = "INVITE"
        /\ h[m].ep_at_auth = ART
        /\ h[m].n500 = 1
        /\ h[m].done

(***************************************************************************)
(* C10                                                                     *)
(***************************************************************************)
\* the Authenticator has run to its return for the message
Authenticated(m) == h[m].auth_ret # "none"

\* C10: the Authenticator's outcome is the table's: for an ACK, or when no
\* authentication is required, no response and PJ_FALSE; on CHALLENGE and
\* FAILED the 401 is sent and PJ_TRUE returned; on SUCCESS the 401 is
\* released, nothing sent and PJ_FALSE returned; on ERROR the 401 is released,
\* a 500 sent and PJ_TRUE returned.  A 401 that was built is sent once or
\* released once, not both.  A consumed request goes no further.
C10_AuthenticatorTable ==
    \A m \in Msgs :
        Authenticated(m)
        => /\ h[m].tdata_built = h[m].tdata_sent + h[m].tdata_released
           /\ h[m].n401 = h[m].tdata_sent
           /\ IF IsAck(m) \/ h[m].requires = "no"
              THEN /\ h[m].tdata_built = 0
                   /\ h[m].n500 = 0
                   /\ h[m].auth_ret = "PJ_FALSE"
              ELSE /\ h[m].requires = "yes"
                   /\ h[m].tdata_built = 1
                   /\ h[m].verdict \in Verdicts
                   /\ h[m].verdict \in {"CHALLENGE", "FAILED"}
                          => h[m].tdata_sent = 1 /\ h[m].n500 = 0 /\ h[m].auth_ret = "PJ_TRUE"
                   /\ h[m].verdict = "SUCCESS"
                          => h[m].tdata_sent = 0 /\ h[m].n500 = 0 /\ h[m].auth_ret = "PJ_FALSE"
                   /\ h[m].verdict = "ERROR"
                          => h[m].tdata_sent = 0 /\ h[m].n500 = 1 /\ h[m].auth_ret = "PJ_TRUE"
           /\ h[m].auth_ret = "PJ_TRUE" => ~h[m].app

\* an identified request's credentials were verified: the 401 was released,
\* nothing was sent and the application has the request
C10_Witness ==
    \E m \in Msgs :
        /\ Authenticated(m)
        /\ h[m].verdict = "SUCCESS"
        /\ h[m].tdata_released = 1
        /\ h[m].tdata_sent = 0
        /\ h[m].app

(***************************************************************************)
(* C11                                                                     *)
(***************************************************************************)
\* the reference counts with that of endpoint e one higher
OneMore(e) == [refcnt EXCEPT ![e] = @ + 1]

\* the step is the Endpoint Identifier running on the request m
EndpointLookupStep(m) == h[m].ident = "none" /\ h'[m].ident # "none"

C12_501WhenUnhandledRequest ==
    \A m \in Msgs :
        /\ ~h[m].done => h[m].n501 = 0
        /\ h[m].done
               => /\ h[m].handled \in {"yes", "no"}
                  /\ h[m].n501 = (IF h[m].handled = "no" /\ IsRequest(m) /\ ~IsAck(m)
                                  THEN 1 ELSE 0)
                  /\ h[m].auth_ret = "PJ_TRUE" => h[m].handled = "yes"
                  /\ h[m].n401 + h[m].n500 > 0 => h[m].n501 = 0

\* a request that went through the Authenticator and that no module took has
\* been answered 501
C12_Witness ==
    \E m \in Msgs :
        /\ h[m].done
        /\ h[m].kind.method = "INVITE"
        /\ IsRequest(m)
        /\ h[m].auth_ret = "PJ_FALSE"
        /\ h[m].app
        /\ h[m].handled = "no"
        /\ h[m].n501 = 1

(***************************************************************************)
(* C13                                                                     *)
(***************************************************************************)
\* the value of a 32-bit int that is not negative
ToNat(hash) == hash[1] * Half + hash[2]

\* C13: the pool index ast_sip_get_distributor_serializer computes lies in
\* 0 .. DISTRIBUTOR_POOL_SIZE - 1 and the entry read is one of the pool,
\* whatever the Call-ID and the remote tag (the empty tag and bytes with the
\* high bit set included); it is abs(h) mod DISTRIBUTOR_POOL_SIZE wherever
\* abs(h) is defined.
C13_PoolIndexInRange ==
    hs.stage = "idx"
    => /\ hs.idx \in 0..(DISTRIBUTOR_POOL_SIZE - 1)
       /\ hs.serializer = PoolName(hs.idx)
       /\ hs.raw # INT_MIN => hs.idx = ToNat(Abs32(hs.raw)) % DISTRIBUTOR_POOL_SIZE

\* the index has been computed for a Call-ID and tag whose hash is the most
\* negative int, which abs() left negative
C13_Witness ==
    /\ hs.stage = "idx"
    /\ hs.raw = INT_MIN
    /\ hs.hash = INT_MIN
    /\ hs.idx \in PoolIdx

(***************************************************************************)
(* C14                                                                     *)
(***************************************************************************)
\* the hook sent the message to the pool: after boot, no serializer from the
\* dialog, none from the transaction, not shed and not answered 481
Pooled(m) ==
    /\ h[m].booted
    /\ h[m].dlg_ser = NULL
    /\ h[m].tsx_ser = NULL
    /\ h[m].path \in {"dispatch", "enq_ok", "enq_fail"}

\* the DJB2 hash of the Call-ID continued over the tag, as a pool index
Djb2Index(cid, tag) ==
    ToNat(Abs32(pjstr_hash_add(tag, pjstr_hash(cid, CharIsSigned), CharIsSigned)))
        % DISTRIBUTOR_POOL_SIZE

\* the tag of the other side: from-tag of a request, to-tag of a response
RemoteTag(m) == IF IsRequest(m) THEN h[m].kind.from_tag ELSE h[m].kind.to_tag

C15_AnnotationHoldsLastSet ==
    \A d \in Dialogs :
        /\ dlg_mod_data[d].allocs <= 1
        /\ dlg_mod_data[d].alloc <=> dlg_mod_data[d].allocs = 1
        /\ dlg_mod_data[d].alloc
               <=> (calls[d].serializer # UNSET \/ calls[d].endpoint # UNSET)
        /\ dlg_mod_data[d].serializer
               = (IF calls[d].serializer = UNSET THEN NULL ELSE calls[d].serializer)
        /\ dlg_mod_data[d].endpoint
               = (IF calls[d].endpoint = UNSET THEN NULL ELSE calls[d].endpoint)

\* both setters have been called on a dialog, the serializer setter with a
\* serializer and the endpoint setter with an endpoint, and the annotation
\* holds both
C15_Witness ==
    \E d \in Dialogs :
        /\ calls[d].serializer = DLGSER
        /\ calls[d].endpoint = E1
        /\ dlg_mod_data[d].serializer = DLGSER
        /\ dlg_mod_data[d].endpoint = E1
        /\ dlg_mod_data[d].allocs = 1

(***************************************************************************)
(* C16                                                                     *)
(***************************************************************************)
\* C16: when record_serializer has returned, it returned PJ_SUCCESS; if the
\* thread ran a serializer whose name is not empty and differs from the name
\* the transmit buffer held, the buffer now holds that name; otherwise (no
\* current serializer, an empty name, or the same name already stored) the
\* buffer holds what it held and nothing was allocated.
C16_RecordSerializer ==
    rs.stage = "returned"
        => /\ rs.ret = "PJ_SUCCESS"
           /\ IF /\ rs.current # NULL
                 /\ ast_taskprocessor_name(rs.current) # ""
                 /\ ast_taskprocessor_name(rs.current) # rs.before
              THEN rs.stored = ast_taskprocessor_name(rs.current)
              ELSE rs.stored = rs.before /\ rs.allocs = 0

\* record_serializer has returned after it replaced one name by another
C16_Witness ==
    /\ rs.stage = "returned"
    /\ rs.before = DLGSER
    /\ rs.current = WRK
    /\ rs.stored = WRK
    /\ rs.allocs = 1

(***************************************************************************)
(* C17                                                                     *)
(***************************************************************************)
\* C17: when ast_sip_initialize_distributor has failed at any step and has
\* come to its return, it returns -1, no module is registered, the artificial
\* endpoint and auth it created have lost the reference it held, and every
\* pool entry is null with the reference to its serializer given up.
C17_FailedInitUnwinds ==
    (lc.stage = "destroyed" /\ lc.failed # "none")
        => /\ lc.ret = "-1"
           /\ lc.registered = {}
           /\ lc.ep_refs = 0
           /\ lc.auth_refs = 0
           /\ \A i \in PoolIdx : lc.pool[i] = NULL /\ lc.tps_refs[i] = 0

\* the registration of the last module failed and the function has unwound
C17_Witness ==
    /\ lc.stage = "destroyed"
    /\ lc.failed = "register_auth_mod"
    /\ lc.artificial_endpoint # NULL
    /\ lc.ret = "-1"

(***************************************************************************)
(* C18                                                                     *)
(***************************************************************************)
\* C18: between the end of a successful initialization and the start of the
\* destruction, whatever messages have been dispatched, identified,
\* authenticated and freed, the artificial endpoint has at least one
\* reference.
C18_ArtificialEndpointKept == refcnt[ART] >= 1

\* a request nobody identified has been through the pipeline with the
\* artificial endpoint attached, its reference has been released and the
\* clone freed
C18_Witness ==
    \E m \in Msgs :
        /\ h[m].phase = "final"
        /\ h[m].ident = "failed"
        /\ h[m].ep = ART
        /\ h[m].ep_released = 1
        /\ h[m].frees = 1
        /\ refcnt[ART] = 1

(***************************************************************************)
(* C19                                                                     *)
(***************************************************************************)
\* the receive buffers that carry the endpoint
RdataHolding(e) ==
    {m \in Msgs : h[m].phase \in {"queued", "running"} /\ h[m].cstate = "live"
                     /\ h[m].ep = e}

\* the holders of a pointer to the endpoint: dialog annotations, receive
\* buffers and callers of the getters
Holders(e) ==
    Cardinality({d \in Dialogs : dlg_mod_data[d].endpoint = e})
        + Cardinality(RdataHolding(e))
        + Cardinality({c \in GetterCallers : held[c] = e})

\* C19: the reference count of an endpoint is never lower than the number
\* of dialog annotations, receive buffers and callers of the getters that
\* point at it, each of them holding a counted reference of its own.
C19_EveryHolderCounted == \A e \in Endpoints : refcnt[e] >= Holders(e)

(***************************************************************************)
(* C20                                                                     *)
(***************************************************************************)
\* C20: for every message the hook has taken, the hook acquired at most one
\* reference to a serializer, from the dialog annotation, by name lookup or
\* by pool bump; once the hook has returned it has released exactly what it
\* acquired, whether the push succeeded or failed, and before that it has
\* released nothing; a message that met the boot gate, was dropped under
\* overload or was answered 481 never had a reference acquired for it.
C20_OneSerializerReference ==
    \A m \in Msgs :
        h[m].phase # "free"
        => /\ h[m].ser_acq <= 1
           /\ h[m].ser_acq = 1 <=> h[m].ser_from \in {"dialog", "name", "pool"}
           /\ Returned(m) => h[m].ser_rel = h[m].ser_acq
           /\ ~Returned(m) => h[m].ser_rel = 0
           /\ h[m].path \in {"boot", "overload", "481"}
                  => h[m].ser_acq = 0 /\ h[m].ser_from = "none" /\ Returned(m)

\* the hook found the serializer of a response by name, the push failed and
\* the hook returned with the reference released
C20_Witness ==
    \E m \in Msgs :
        /\ h[m].path = "enq_fail"
        /\ h[m].ser_from = "name"
        /\ h[m].ser_acq = 1
        /\ h[m].ser_rel = 1
        /\ Returned(m)

(***************************************************************************)
(* C21                                                                     *)
(***************************************************************************)
\* ast_sip_destroy_distributor has begun to release the artificial auth, the
\* artificial endpoint and the pool
Releasing == lc.stage \in {"cleanup_endpoint", "pool_shutdown", "destroyed"}

\* C21: once shutdown has come to release the synthetic auth, the synthetic
\* endpoint and the pool, the serializers are drained: no distribute task is
\* queued and none is running.
C21_DrainedBeforeRelease ==
    Releasing => \A s \in Serializers : queue[s] = <<>> /\ w[s].stage = "idle"

(***************************************************************************)
(* C22                                                                     *)
(***************************************************************************)
\* C22: a message whose clone failed is never used or enqueued, and a
\* message whose clone or push failed is dropped: no distribute task is
\* queued or run for it, the endpoint reference taken for the clone is
\* released exactly once and a clone that was made is freed exactly once.
C22_FailedCloneOrPushDrops ==
    \A m \in Msgs :
        h[m].phase # "free"
        => /\ h[m].path # "crash"
           /\ h[m].cstate = "invalid"
                  => /\ h[m].enq = 0
                     /\ h[m].phase \notin {"queued", "running"}
           /\ (Returned(m) /\ (h[m].path = "enq_fail" \/ h[m].clones = 0))
                  => /\ h[m].phase = "final"
                     /\ h[m].ep_released = h[m].ep_taken
                     /\ h[m].frees = h[m].clones

(***************************************************************************)
(* C23                                                                     *)
(***************************************************************************)
\* C23: a hook thread that is about to read the endpoint of a dialog's
\* annotation holds that dialog's lock, as the setters and the getter do for
\* the whole of their access.
C23_AnnotationReadUnderLock ==
    \A t \in Threads : (pc[t] = "dispatch" /\ hk[t].dist # NULL) => hk[t].dlg_locked

(***************************************************************************)
(* C24                                                                     *)
(***************************************************************************)
\* C24: whenever the Authenticator runs on a request, ACK included and
\* whatever the identification gave, the endpoint in the receive buffer's
\* slot is not null: its assertion endpoint != NULL holds.
C24_AuthenticatorHasEndpoint ==
    \A m \in Msgs : h[m].phase # "free" => ~h[m].assert_failed

(***************************************************************************)
(* C25                                                                     *)
(***************************************************************************)
\* C25: for every message the hook has taken, before the hook clones or
\* pushes and on every return, each dialog lock and each transaction lock
\* the hook acquired in find_dialog and find_request_serializer has been
\* released exactly once: one dialog lock exactly when a dialog was found,
\* one transaction lock for each transaction found.
C25_HookLocksReleased ==
    \A m \in Msgs :
        h[m].phase # "free"
        => /\ h[m].dlg_unlocks = h[m].dlg_locks
           /\ h[m].tsx_unlocks = h[m].tsx_locks
           /\ h[m].dlg_locks = (IF h[m].dlg = NULL THEN 0 ELSE 1)
           /\ h[m].tsx_locks <= h[m].tsx_lookups
           /\ ~h[m].booted => h[m].dlg_locks = 0 /\ h[m].tsx_locks = 0

\* a response without a dialog whose client transaction was found and has
\* no last request: the transaction was locked and unlocked, and the hook is
\* about to clone
C25_Witness ==
    \E m \in Msgs :
        /\ h[m].phase = "hook"
        /\ h[m].kind.type = "RESP"
        /\ h[m].dlg = NULL
        /\ h[m].req_name = NULL
        /\ h[m].tsx_locks = 1
        /\ h[m].tsx_unlocks = 1

(***************************************************************************)
(* C26                                                                     *)
(***************************************************************************)
\* C26: whatever the sequence of initializations and destructions, the
\* process-wide reference to the artificial endpoint, to the artificial auth
\* and to each pool serializer is never released more often than it was
\* acquired.
C26_NoReferenceOverReleased ==
    /\ lc.ep_refs >= 0
    /\ lc.auth_refs >= 0
    /\ \A i \in PoolIdx : lc.tps_refs[i] >= 0

(***************************************************************************)
(* The WAV mu-law format module (formats/format_wav_ulaw.c): the header    *)
(* writer and the header reader, byte by byte, on a little-endian and on a *)
(* big-endian build                                                        *)
(***************************************************************************)
WAVE_FORMAT_MULAW == 7
WAVE_ULAW_FREQ == 8000

\* __BYTE_ORDER of the build
Endians == {"little", "big"}

\* the n bytes of a bit pattern, least significant first, and the value such
\* bytes stand for (a short and an int are signed)
Bytes(n, v) ==
    IF n = 2
    THEN <<v % 256, (v \div 256) % 256>>
    ELSE <<v % 256, (v \div 256) % 256, (v \div 65536) % 256,
           (v \div 16777216) % 256>>
Value(b) ==
    LET top == IF b[Len(b)] >= 128 THEN b[Len(b)] - 256 ELSE b[Len(b)]
    IN  IF Len(b) = 2
        THEN b[1] + 256 * top
        ELSE b[1] + 256 * b[2] + 65536 * b[3] + 16777216 * top
Swap(b) == [i \in 1..Len(b) |-> b[Len(b) + 1 - i]]

\* an object of n bytes in memory, as fwrite sends it and fread fills it:
\* in the build's byte order
Store(endian, n, v) ==
    IF endian = "little" THEN Bytes(n, v) ELSE Swap(Bytes(n, v))
Load(endian, b) ==
    IF endian = "little" THEN Value(b) ELSE Value(Swap(b))

\* the conversion macros: nothing on a little-endian build, a swap of the
\* bytes on a big-endian one.  htols yields an int of the two low bytes.
htoll(endian, b) ==
    IF endian = "little" THEN b ELSE Value(Swap(Bytes(4, b)))
htols(endian, b) ==
    IF endian = "little" THEN b ELSE (b % 256) * 256 + ((b \div 256) % 256)
ltohl(endian, b) == htoll(endian, b)
ltohs(endian, b) == htols(endian, b)

\* the four-character literals of the source, as bytes
Tag(name) ==
    CASE name = "RIFF" -> <<82, 73, 70, 70>>
      [] name = "WAVE" -> <<87, 65, 86, 69>>
      [] name = "fmt " -> <<102, 109, 116, 32>>
      [] name = "data" -> <<100, 97, 116, 97>>
      [] name = "LIST" -> <<76, 73, 83, 84>>

\* fread(ptr, 1, n, f): the next n bytes, or fewer than n (here: none) when
\* the file ends before them
fread(f, pos, n) ==
    IF pos + n <= Len(f) THEN SubSeq(f, pos + 1, pos + n) ELSE <<>>

\* fseek(f, off, SEEK_CUR) fails when the position would become negative;
\* a position past the end of the file is accepted
fseek(pos, off) == IF pos + off < 0 THEN 0 - 1 ELSE pos + off

\* write_header: the twelve fwrite calls in order, each with the bytes it
\* sends.  hs, size and the four shorts go through htoll and htols; hz and
\* bhz are written as they lie in memory.
write_header(endian) ==
    LET hz == 8000
        bhz == 16000
        hs_ == htoll(endian, 16)
        size == htoll(endian, 0)
        fmt == htols(endian, 1)
        chans == htols(endian, 1)
        bysam == htols(endian, 2)
        bisam == htols(endian, 16)
    IN  << Tag("RIFF"),
           Store(endian, 4, size),
           Tag("WAVE") \o Tag("fmt "),
           Store(endian, 4, hs_),
           Store(endian, 2, fmt),
           Store(endian, 2, chans),
           Store(endian, 4, hz),
           Store(endian, 4, bhz),
           Store(endian, 2, bysam),
           Store(endian, 2, bisam),
           Tag("data"),
           Store(endian, 4, size) >>

\* a RIFF/WAVE file as another program lays it out (little-endian fields):
\* an optional LIST chunk of four bytes, a fmt chunk of fmtlen bytes, and
\* the head of a data chunk
WavFile(format, chans, freq, bysam, fmtlen, list, datalen) ==
    Tag("RIFF") \o Bytes(4, 36 + datalen) \o Tag("WAVE")
      \o (IF list THEN Tag("LIST") \o Bytes(4, 4) \o <<0, 0, 0, 0>> ELSE <<>>)
      \o Tag("fmt ") \o Bytes(4, fmtlen)
      \o Bytes(2, format) \o Bytes(2, chans) \o Bytes(4, freq)
      \o Bytes(4, freq * bysam) \o Bytes(2, bysam) \o Bytes(2, 8 * bysam)
      \o [i \in 1..(fmtlen - 16) |-> 0]
      \o Tag("data") \o Bytes(4, datalen)

\* the files wav_ulaw_open is handed that wav_ulaw_rewrite did not write
StockFiles ==
    { WavFile(WAVE_FORMAT_MULAW, 1, WAVE_ULAW_FREQ, 1, 16, FALSE, 0),
      WavFile(WAVE_FORMAT_MULAW, 1, WAVE_ULAW_FREQ, 1, 18, TRUE, 160),
      WavFile(1, 1, WAVE_ULAW_FREQ, 2, 16, FALSE, 0),
      WavFile(WAVE_FORMAT_MULAW, 2, WAVE_ULAW_FREQ, 1, 16, FALSE, 0),
      WavFile(WAVE_FORMAT_MULAW, 1, 16000, 1, 16, FALSE, 0),
      WavFile(WAVE_FORMAT_MULAW, 1, WAVE_ULAW_FREQ, 2, 16, FALSE, 0),
      WavFile(WAVE_FORMAT_MULAW, 1, WAVE_ULAW_FREQ, 1, 14, FALSE, 0),
      Tag("RIFF") \o Bytes(4, 4) \o Tag("LIST"),
      Tag("RIFF") \o Bytes(4, 4) \o Tag("WAVE"),
      Tag("data") \o Bytes(4, 0),
      Tag("RIFF"),
      <<>> }

\* a stream wav_ulaw_rewrite is about to write, or a stock file
\* wav_ulaw_open is about to read, on either build
InitWav ==
    /\ MainInit
    /\ hs = NoHash
    /\ calls = [d \in Dialogs |-> NoCalls]
    /\ rs = NoRecord
    /\ lc = Initialized
    /\ held = NoHeld
    /\ wv \in
        {[NoWav EXCEPT !.stage = "write", !.endian = e,
                       !.origin = "rewrite"] : e \in Endians}
          \cup
        {[NoWav EXCEPT !.stage = "open", !.endian = e, !.origin = "stock",
                       !.f = file] : e \in Endians, file \in StockFiles}

\* one fwrite of write_header (204-252): a short write returns -1, the last
\* complete one returns 0
write_header_step(ok) ==
    LET calls_ == write_header(wv.endian)
    IN  /\ wv.stage = "write"
        /\ wv' = IF ~ok
                 THEN [wv EXCEPT !.stage = "write_done",
                                 !.write_ret = 0 - 1]
                 ELSE IF wv.wstep = Len(calls_)
                 THEN [wv EXCEPT !.f = @ \o calls_[wv.wstep],
                                 !.stage = "write_done",
                                 !.write_ret = 0]
                 ELSE [wv EXCEPT !.f = @ \o calls_[wv.wstep],
                                 !.wstep = @ + 1]
        /\ UNCHANGED <<mainVars, hs, calls, rs, lc, held>>

\* wav_ulaw_rewrite (259-264): -1 when write_header failed, else 0; the
\* file is then one that wav_ulaw_open can be handed, from its first byte
wav_ulaw_rewrite ==
    /\ wv.stage = "write_done"
    /\ wv' = IF wv.write_ret # 0
             THEN [wv EXCEPT !.stage = "rewrite_failed",
                             !.rewrite_ret = 0 - 1]
             ELSE [wv EXCEPT !.stage = "open", !.rewrite_ret = 0,
                             !.pos = 0]
    /\ UNCHANGED <<mainVars, hs, calls, rs, lc, held>>

\* check_header returns -1
check_header_fails == [wv EXCEPT !.stage = "checked", !.check_ret = 0 - 1]

\* check_header 111-119: the first four bytes are "RIFF"
check_header_type ==
    LET type == fread(wv.f, wv.pos, 4)
    IN  /\ wv.stage = "open"
        /\ wv' = IF type = <<>> \/ type # Tag("RIFF")
                 THEN check_header_fails
                 ELSE [wv EXCEPT !.stage = "size", !.pos = @ + 4]
        /\ UNCHANGED <<mainVars, hs, calls, rs, lc, held>>

\* check_header 122-127: the size of the file, converted and not used
check_header_size ==
    LET size == fread(wv.f, wv.pos, 4)
    IN  /\ wv.stage = "size"
        /\ wv' = IF size = <<>>
                 THEN check_header_fails
                 ELSE [wv EXCEPT !.stage = "formtype", !.pos = @ + 4,
                          !.size = ltohl(wv.endian, Load(wv.endian, size))]
        /\ UNCHANGED <<mainVars, hs, calls, rs, lc, held>>

\* check_header 130-138: the next four bytes are "WAVE"
check_header_formtype ==
    LET formtype == fread(wv.f, wv.pos, 4)
    IN  /\ wv.stage = "formtype"
        /\ wv' = IF formtype = <<>> \/ formtype # Tag("WAVE")
                 THEN check_header_fails
                 ELSE [wv EXCEPT !.stage = "chunk", !.pos = @ + 4]
        /\ UNCHANGED <<mainVars, hs, calls, rs, lc, held>>

\* check_header 140-177, one turn of the loop: a chunk's name and its
\* length, the length taken as it lies in memory.  "fmt " goes to
\* check_header_fmt, "data" ends the search and its length is the result,
\* anything else is skipped.
check_header_chunk ==
    LET buf == fread(wv.f, wv.pos, 4)
        raw == fread(wv.f, wv.pos + 4, 4)
        data == Load(wv.endian, raw)
    IN  /\ wv.stage = "chunk"
        /\ wv' = IF buf = <<>> \/ raw = <<>>
                 THEN check_header_fails
                 ELSE IF buf = Tag("fmt ")
                 THEN [wv EXCEPT !.stage = "fmt", !.pos = @ + 8,
                                 !.data = data, !.field = 1]
                 ELSE IF buf = Tag("data")
                 THEN [wv EXCEPT !.stage = "checked", !.pos = @ + 8,
                                 !.data = data, !.check_ret = data]
                 ELSE IF fseek(wv.pos + 8, data) = 0 - 1
                 THEN check_header_fails
                 ELSE [wv EXCEPT !.pos = fseek(wv.pos + 8, data),
                                 !.data = data]
        /\ UNCHANGED <<mainVars, hs, calls, rs, lc, held>>

\* check_header_fmt 39-42: a fmt chunk shorter than 16 bytes is refused
check_header_fmt_size ==
    /\ wv.stage = "fmt"
    /\ wv' = IF wv.data < 16
             THEN check_header_fails
             ELSE [wv EXCEPT !.stage = "fmt_field"]
    /\ UNCHANGED <<mainVars, hs, calls, rs, lc, held>>

\* check_header_fmt 44-91: the six fields in order, with their width and
\* the value demanded of them (format, chans, freq, bysam) or none (bysec,
\* bisam)
FmtFields ==
    << [name |-> "format", n |-> 2, checked |-> TRUE,
        must |-> WAVE_FORMAT_MULAW],
       [name |-> "chans", n |-> 2, checked |-> TRUE, must |-> 1],
       [name |-> "freq", n |-> 4, checked |-> TRUE, must |-> WAVE_ULAW_FREQ],
       [name |-> "bysec", n |-> 4, checked |-> FALSE, must |-> 0],
       [name |-> "bysam", n |-> 2, checked |-> TRUE, must |-> 1],
       [name |-> "bisam", n |-> 2, checked |-> FALSE, must |-> 0] >>

\* check_header_fmt 44-91, one field: read it, convert it from little
\* endian, compare it
check_header_fmt_field ==
    LET fld == FmtFields[wv.field]
        raw == fread(wv.f, wv.pos, fld.n)
        value == IF raw = <<>> THEN 0
                 ELSE IF fld.n = 2
                 THEN ltohs(wv.endian, Load(wv.endian, raw))
                 ELSE ltohl(wv.endian, Load(wv.endian, raw))
    IN  /\ wv.stage = "fmt_field"
        /\ wv' = IF raw = <<>> \/ (fld.checked /\ value # fld.must)
                 THEN check_header_fails
                 ELSE IF wv.field = Len(FmtFields)
                 THEN [wv EXCEPT !.stage = "fmt_skip", !.pos = @ + fld.n]
                 ELSE [wv EXCEPT !.pos = @ + fld.n, !.field = @ + 1]
        /\ UNCHANGED <<mainVars, hs, calls, rs, lc, held>>

\* check_header_fmt 94-99: the rest of the fmt chunk is skipped and the
\* loop of check_header goes on
check_header_fmt_skip ==
    /\ wv.stage = "fmt_skip"
    /\ wv' = IF fseek(wv.pos, wv.data - 16) = 0 - 1
             THEN check_header_fails
             ELSE [wv EXCEPT !.stage = "chunk",
                             !.pos = fseek(wv.pos, wv.data - 16)]
    /\ UNCHANGED <<mainVars, hs, calls, rs, lc, held>>

\* wav_ulaw_open (186-191): -1 when check_header returned a negative value,
\* else 0
wav_ulaw_open ==
    /\ wv.stage = "checked"
    /\ wv' = [wv EXCEPT !.stage = "opened",
                        !.open_ret = IF wv.check_ret < 0 THEN 0 - 1 ELSE 0]
    /\ UNCHANGED <<mainVars, hs, calls, rs, lc, held>>

NextWav ==
    \/ \E ok \in BOOLEAN : write_header_step(ok)
    \/ wav_ulaw_rewrite
    \/ check_header_type
    \/ check_header_size
    \/ check_header_formtype
    \/ check_header_chunk
    \/ check_header_fmt_size
    \/ check_header_fmt_field
    \/ check_header_fmt_skip
    \/ wav_ulaw_open

SpecWav == InitWav /\ [][NextWav]_vars

(***************************************************************************)
(* C27                                                                     *)
(***************************************************************************)
\* C27: a file whose header wav_ulaw_rewrite wrote is accepted by
\* wav_ulaw_open: check_header finds RIFF, WAVE, a fmt chunk that passes
\* check_header_fmt and a data chunk, and returns a non-negative length.
C27_RewrittenHeaderOpens ==
    (wv.origin = "rewrite" /\ wv.rewrite_ret = 0 /\ wv.stage = "opened")
        => (wv.check_ret >= 0 /\ wv.open_ret = 0)

====
